---------------------------- MODULE Spec2Model ----------------------------
(***************************************************************************)
(* A model of crypto-morning-brief: the rule-based SignalEngine            *)
(* (app/services/signal_engine.py), the market data providers              *)
(* (app/providers/public_provider.py, mock_provider.py) and the daily      *)
(* report route (app/api/routes.py).                                       *)
(*                                                                         *)
(* Numbers.  Python floats are modelled by exact integer arithmetic in     *)
(* fixed units, and every comparison of a quotient is cross-multiplied:    *)
(*   funding_rate, funding_rate_24h     units of 0.0001 (0.01 is 100)      *)
(*   change_24h                         whole percent (12 is 12%)          *)
(*   long_short_ratio                   units of 0.001 (1.5 is 1500)       *)
(*   volume_ratio = volume_24h / market_cap   units of 0.001               *)
(*   btc_dominance                      the pair <<btc_mcap, total_mcap>>  *)
(*   open interest, liquidations, market caps, volumes   whole units       *)
(* A dict is a record; dict.get(key, default) is Get; a key that is not    *)
(* in the dict is a field that is not in the record's DOMAIN.              *)
(***************************************************************************)
EXTENDS Integers, Sequences, FiniteSets, TLC

VARIABLES
    historical_data,       \* SignalEngine._historical_data: symbol -> list of dicts
    calls,                 \* analyze calls made so far; also the clock of utcnow()
    covered,               \* symbol -> number of analyze calls that processed it
    last,                  \* the last analyze call: its snapshots, order and result
    prev,                  \* the analyze call before it
    fetch,                 \* one PublicProvider fetch in flight (get_*_snapshot)
    spot_cache,            \* MockMarketProvider._spot_cache
    derivatives_cache,     \* MockMarketProvider._derivatives_cache
    now,                   \* wall clock seen by the mock provider, in seconds
    market_provider,       \* the provider get_market_provider built, and its calls
    response,              \* the response of the last POST /report/daily
    notifier,              \* one TelegramNotifier.send call and its API calls
    loop                   \* the event loop: the report requests in flight

vars == <<historical_data, calls, covered, last, prev, fetch, spot_cache,
          derivatives_cache, now, market_provider, response, notifier, loop>>

engineVars == <<historical_data, calls, covered, last, prev>>
providerVars == <<fetch, spot_cache, derivatives_cache, now, market_provider>>

---------------------------------------------------------------------------
(* Helpers for Python lists and dicts *)

Get(d, key, default) == IF key \in DOMAIN d THEN d[key] ELSE default

SetKey(d, key, val) ==
    [k \in (DOMAIN d) \cup {key} |-> IF k = key THEN val ELSE d[k]]

Last(s) == s[Len(s)]

\* s[-n:]
LastN(s, n) == IF Len(s) <= n THEN s ELSE SubSeq(s, Len(s) - n + 1, Len(s))

\* s[:n]
FirstN(s, n) == IF Len(s) <= n THEN s ELSE SubSeq(s, 1, n)

Abs(x) == IF x < 0 THEN -x ELSE x

RECURSIVE SumSeq(_)
SumSeq(s) == IF s = <<>> THEN 0 ELSE s[1] + SumSeq(Tail(s))

RECURSIVE Perms(_)
Perms(S) ==
    IF S = {} THEN {<<>>}
    ELSE UNION {{<<x>> \o p : p \in Perms(S \ {x})} : x \in S}

---------------------------------------------------------------------------
(* SignalEngine *)

Symbols == {"BTC", "ETH"}

THRESHOLDS ==
    [funding_rate_overheated  |-> 100,    \* 0.01
     funding_rate_extreme     |-> 500,    \* 0.05
     oi_increase_critical     |-> 30,     \* 0.3, in percent
     oi_increase_warning      |-> 15,     \* 0.15, in percent
     volatility_extreme       |-> 15,     \* 0.15, in percent
     volatility_high          |-> 10,     \* 0.10, in percent
     volume_surge_zscore      |-> 2,      \* 2.0
     price_oi_surge_price     |-> 5,      \* 0.05, in percent
     price_oi_surge_oi        |-> 20,     \* 0.20, in percent
     price_drop_volume_price  |-> -5,     \* -0.05, in percent
     price_drop_volume_volume |-> 50,     \* 0.5, in percent
     long_short_ratio_extreme |-> 1500,   \* 1.5
     long_short_ratio_warning |-> 1300,   \* 1.3
     liquidation_risk_ratio   |-> 10]     \* 0.1, in percent

\* The capacity of one symbol's history list.
HistoryLimit == 10

\* The capacity of the regime rationale.
RationaleLimit == 10

\* The dict a rule returns, reduced to its id (f"{symbol}_{rule}") and level.
Signal(symbol, rule, level) == [id |-> symbol \o "_" \o rule, level |-> level]

\* What a rule returns: the signal (<<>> is None) and the engine's history.
Ret(sig, H) == [signal |-> sig, hist |-> H]

\* _check_funding_overheated reading the single-period funding_rate
_check_funding_overheated_single_period(H, symbol, deriv_data) ==
    LET funding_rate == Get(deriv_data, "funding_rate", 0) IN
    IF Abs(funding_rate) >= THRESHOLDS.funding_rate_overheated
    THEN Ret(<<Signal(symbol, "funding_overheated",
                      IF Abs(funding_rate) >= THRESHOLDS.funding_rate_extreme
                      THEN "critical" ELSE "warn")>>, H)
    ELSE Ret(<<>>, H)

_check_funding_overheated(H, symbol, deriv_data) ==
    LET funding_rate_24h == Get(deriv_data, "funding_rate_24h", 0) IN
    IF Abs(funding_rate_24h) >= THRESHOLDS.funding_rate_overheated
    THEN Ret(<<Signal(symbol, "funding_overheated",
                      IF Abs(funding_rate_24h) >= THRESHOLDS.funding_rate_extreme
                      THEN "critical" ELSE "warn")>>, H)
    ELSE Ret(<<>>, H)

\* _check_oi_surge warning only from a 25% increase, above the 20% of rule 6
_check_oi_surge_warning_25(H, symbol, deriv_data, utcnow) ==
    LET oi == Get(deriv_data, "open_interest", 0)
        oi_usd == Get(deriv_data, "open_interest_usd", oi)
        hist == H[symbol]
        prev_oi == Get(Last(hist), "open_interest_usd", oi_usd)
        appended == Append(hist, [open_interest_usd |-> oi_usd,
                                  timestamp |-> utcnow])
        stored == [H EXCEPT ![symbol] = LastN(appended, HistoryLimit)]
    IN  IF Len(hist) > 0 /\ prev_oi > 0
        THEN IF (oi_usd - prev_oi) * 100 >= THRESHOLDS.oi_increase_critical * prev_oi
             THEN Ret(<<Signal(symbol, "oi_surge", "critical")>>, H)
             ELSE IF (oi_usd - prev_oi) * 100 >= 25 * prev_oi
             THEN Ret(<<Signal(symbol, "oi_surge", "warn")>>, H)
             ELSE Ret(<<>>, H)
        ELSE Ret(<<>>, stored)

\* _check_oi_surge with the critical threshold compared by > instead of >=
_check_oi_surge_strict(H, symbol, deriv_data, utcnow) ==
    LET oi == Get(deriv_data, "open_interest", 0)
        oi_usd == Get(deriv_data, "open_interest_usd", oi)
        hist == H[symbol]
        prev_oi == Get(Last(hist), "open_interest_usd", oi_usd)
        appended == Append(hist, [open_interest_usd |-> oi_usd,
                                  timestamp |-> utcnow])
        stored == [H EXCEPT ![symbol] = LastN(appended, HistoryLimit)]
    IN  IF Len(hist) > 0 /\ prev_oi > 0
        THEN IF (oi_usd - prev_oi) * 100 > THRESHOLDS.oi_increase_critical * prev_oi
             THEN Ret(<<Signal(symbol, "oi_surge", "critical")>>, H)
             ELSE IF (oi_usd - prev_oi) * 100 >= THRESHOLDS.oi_increase_warning * prev_oi
             THEN Ret(<<Signal(symbol, "oi_surge", "warn")>>, H)
             ELSE Ret(<<>>, H)
        ELSE Ret(<<>>, stored)

\* _check_oi_surge keeping hist[:10], the oldest records, instead of hist[-10:]
_check_oi_surge_keep_oldest(H, symbol, deriv_data, utcnow) ==
    LET oi == Get(deriv_data, "open_interest", 0)
        oi_usd == Get(deriv_data, "open_interest_usd", oi)
        hist == H[symbol]
        prev_oi == Get(Last(hist), "open_interest_usd", oi_usd)
        appended == Append(hist, [open_interest_usd |-> oi_usd,
                                  timestamp |-> utcnow])
        stored == [H EXCEPT ![symbol] = FirstN(appended, HistoryLimit)]
    IN  IF Len(hist) > 0 /\ prev_oi > 0
        THEN IF (oi_usd - prev_oi) * 100 >= THRESHOLDS.oi_increase_critical * prev_oi
             THEN Ret(<<Signal(symbol, "oi_surge", "critical")>>, H)
             ELSE IF (oi_usd - prev_oi) * 100 >= THRESHOLDS.oi_increase_warning * prev_oi
             THEN Ret(<<Signal(symbol, "oi_surge", "warn")>>, H)
             ELSE Ret(<<>>, H)
        ELSE Ret(<<>>, stored)

_check_oi_surge(H, symbol, deriv_data, utcnow) ==
    LET oi == Get(deriv_data, "open_interest", 0)
        oi_usd == Get(deriv_data, "open_interest_usd", oi)
        hist == H[symbol]
        prev_oi == Get(Last(hist), "open_interest_usd", oi_usd)
        appended == Append(hist, [open_interest_usd |-> oi_usd,
                                  timestamp |-> utcnow])
        stored == [H EXCEPT ![symbol] = LastN(appended, HistoryLimit)]
    IN  IF Len(hist) > 0 /\ prev_oi > 0
        THEN \* every branch below returns before the history is written
             IF (oi_usd - prev_oi) * 100 >= THRESHOLDS.oi_increase_critical * prev_oi
             THEN Ret(<<Signal(symbol, "oi_surge", "critical")>>, H)
             ELSE IF (oi_usd - prev_oi) * 100 >= THRESHOLDS.oi_increase_warning * prev_oi
             THEN Ret(<<Signal(symbol, "oi_surge", "warn")>>, H)
             ELSE Ret(<<>>, H)
        ELSE Ret(<<>>, stored)

_check_volatility_spike(H, symbol, spot_data) ==
    LET change_24h == Abs(Get(spot_data, "change_24h", 0)) IN
    IF change_24h >= THRESHOLDS.volatility_extreme
    THEN Ret(<<Signal(symbol, "volatility_spike", "critical")>>, H)
    ELSE IF change_24h >= THRESHOLDS.volatility_high
    THEN Ret(<<Signal(symbol, "volatility_spike", "warn")>>, H)
    ELSE Ret(<<>>, H)

\* volume_24h / market_cap if market_cap > 0 else 0, in units of 0.001
VolumeRatio(spot_data) ==
    LET volume_24h == Get(spot_data, "volume_24h", 0)
        market_cap == Get(spot_data, "market_cap", 1)
    IN  IF market_cap > 0 THEN (volume_24h * 1000) \div market_cap ELSE 0

\* zscore >= 2.0 of volume_ratio against prev_ratios, with std_ratio > 0.
\* With n samples of sum S and sum of squares Q: mean = S/n and
\* n^2 * variance = n*Q - S^2; a single sample has std = 0.1 * mean.
ZScoreAtLeast(volume_ratio, prev_ratios, z) ==
    LET n == Len(prev_ratios)
        S == SumSeq(prev_ratios)
        Q == SumSeq([i \in 1..n |-> prev_ratios[i] * prev_ratios[i]])
    IN  IF n > 1
        THEN /\ n * Q - S * S > 0
             /\ n * volume_ratio - S >= 0
             /\ (n * volume_ratio - S) * (n * volume_ratio - S)
                    >= z * z * (n * Q - S * S)
        ELSE /\ S > 0
             /\ 10 * (volume_ratio - S) >= z * S

_check_volume_surge(H, symbol, spot_data) ==
    LET volume_ratio == VolumeRatio(spot_data)
        hist == H[symbol]
        recent == LastN(hist, 5)
        prev_ratios == [i \in 1..Len(recent) |->
                            Get(recent[i], "volume_ratio", volume_ratio)]
        stored ==
            IF Len(hist) > 0
            THEN [H EXCEPT ![symbol][Len(hist)] =
                      SetKey(Last(hist), "volume_ratio", volume_ratio)]
            ELSE [H EXCEPT ![symbol] = <<[volume_ratio |-> volume_ratio]>>]
    IN  IF /\ Len(hist) > 0
           /\ ZScoreAtLeast(volume_ratio, prev_ratios, THRESHOLDS.volume_surge_zscore)
        THEN Ret(<<Signal(symbol, "volume_surge", "warn")>>, H)
        ELSE Ret(<<>>, stored)

_check_long_short_ratio(H, symbol, deriv_data) ==
    LET ratio == Get(deriv_data, "long_short_ratio", 1000) IN
    IF ratio >= THRESHOLDS.long_short_ratio_extreme
    THEN Ret(<<Signal(symbol, "long_short_imbalance", "warn")>>, H)
    ELSE IF ratio * THRESHOLDS.long_short_ratio_extreme <= 1000 * 1000
    THEN Ret(<<Signal(symbol, "long_short_imbalance", "warn")>>, H)
    ELSE IF ratio >= THRESHOLDS.long_short_ratio_warning
    THEN Ret(<<Signal(symbol, "long_short_imbalance", "info")>>, H)
    ELSE IF ratio * THRESHOLDS.long_short_ratio_warning <= 1000 * 1000
    THEN Ret(<<Signal(symbol, "long_short_imbalance", "info")>>, H)
    ELSE Ret(<<>>, H)

\* oi_change >= pct / 100, where oi_change is 0 unless there is a newest
\* record whose open_interest_usd (default: oi) is positive.
OiChangeAtLeast(hist, oi, pct) ==
    LET prev_oi == Get(Last(hist), "open_interest_usd", oi) IN
    IF Len(hist) > 0 /\ prev_oi > 0
    THEN (oi - prev_oi) * 100 >= pct * prev_oi
    ELSE 0 >= pct

\* oi_change < pct / 100 and oi_change > pct / 100, likewise
OiChangeBelow(hist, oi, pct) ==
    LET prev_oi == Get(Last(hist), "open_interest_usd", oi) IN
    IF Len(hist) > 0 /\ prev_oi > 0
    THEN (oi - prev_oi) * 100 < pct * prev_oi
    ELSE 0 < pct

OiChangeAbove(hist, oi, pct) ==
    LET prev_oi == Get(Last(hist), "open_interest_usd", oi) IN
    IF Len(hist) > 0 /\ prev_oi > 0
    THEN (oi - prev_oi) * 100 > pct * prev_oi
    ELSE 0 > pct

_check_price_oi_surge(H, symbol, spot_data, deriv_data) ==
    LET change_24h == Get(spot_data, "change_24h", 0)
        oi == Get(deriv_data, "open_interest_usd", 0)
    IN  IF /\ change_24h >= THRESHOLDS.price_oi_surge_price
           /\ OiChangeAtLeast(H[symbol], oi, THRESHOLDS.price_oi_surge_oi)
        THEN Ret(<<Signal(symbol, "liquidation_risk_alert", "critical")>>, H)
        ELSE Ret(<<>>, H)

_check_price_drop_volume(H, symbol, spot_data) ==
    LET change_24h == Get(spot_data, "change_24h", 0)
        volume_ratio == VolumeRatio(spot_data)
        hist == H[symbol]
        prev_ratio == Get(Last(hist), "volume_ratio", volume_ratio)
        volume_change_ok ==
            IF Len(hist) > 0 /\ prev_ratio > 0
            THEN (volume_ratio - prev_ratio) * 100
                     >= THRESHOLDS.price_drop_volume_volume * prev_ratio
            ELSE 0 >= THRESHOLDS.price_drop_volume_volume
    IN  IF change_24h <= THRESHOLDS.price_drop_volume_price /\ volume_change_ok
        THEN Ret(<<Signal(symbol, "panic_selling_risk", "warn")>>, H)
        ELSE Ret(<<>>, H)

\* _check_extreme_funding with the threshold compared by > instead of >=
_check_extreme_funding_strict(H, symbol, deriv_data) ==
    LET funding_rate == Get(deriv_data, "funding_rate", 0) IN
    IF Abs(funding_rate) > THRESHOLDS.funding_rate_extreme
    THEN Ret(<<Signal(symbol, "extreme_funding", "critical")>>, H)
    ELSE Ret(<<>>, H)

_check_extreme_funding(H, symbol, deriv_data) ==
    LET funding_rate == Get(deriv_data, "funding_rate", 0) IN
    IF Abs(funding_rate) >= THRESHOLDS.funding_rate_extreme
    THEN Ret(<<Signal(symbol, "extreme_funding", "critical")>>, H)
    ELSE Ret(<<>>, H)

_check_liquidation_risk(H, symbol, deriv_data) ==
    LET long_liq == Get(deriv_data, "long_liquidation_24h", 0)
        short_liq == Get(deriv_data, "short_liquidation_24h", 0)
        oi == Get(deriv_data, "open_interest_usd", 0)
    IN  IF /\ oi > 0
           /\ (long_liq + short_liq) * 100 >= THRESHOLDS.liquidation_risk_ratio * oi
        THEN Ret(<<Signal(symbol, "high_liquidation_risk", "warn")>>, H)
        ELSE Ret(<<>>, H)

_check_momentum_divergence(H, symbol, spot_data, deriv_data) ==
    LET change_24h == Get(spot_data, "change_24h", 0)
        funding_rate == Get(deriv_data, "funding_rate", 0)
        oi == Get(deriv_data, "open_interest_usd", 0)
        hist == H[symbol]
    IN  IF change_24h > 5 /\ (funding_rate < -5 \/ OiChangeBelow(hist, oi, -10))
        THEN Ret(<<Signal(symbol, "momentum_divergence", "info")>>, H)
        ELSE IF change_24h < -5 /\ (funding_rate > 5 \/ OiChangeAbove(hist, oi, 10))
        THEN Ret(<<Signal(symbol, "momentum_divergence", "info")>>, H)
        ELSE Ret(<<>>, H)

\* sum(data.get("market_cap", 0) for data in spot_snapshot.values())
RECURSIVE TotalMcap(_, _)
TotalMcap(spot_snapshot, keys) ==
    IF keys = {} THEN 0
    ELSE LET k == CHOOSE x \in keys : TRUE IN
         Get(spot_snapshot[k], "market_cap", 0) + TotalMcap(spot_snapshot, keys \ {k})

\* abs(a - b) >= 0.02 for two dominances given as <<part, total>>:
\* 50 * |a1*b2 - b1*a2| >= a2*b2, written without the large product
DominanceChanged(a, b) ==
    Abs(a[1] * b[2] - b[1] * a[2]) >= (a[2] * b[2] + 49) \div 50

\* _check_btc_dominance_change with hist[-1].get("btc_dominance", 0): a record
\* without a dominance is read as dominance 0 instead of the current one
_check_btc_dominance_change_default0(H, spot_snapshot) ==
    LET btc_mcap == Get(spot_snapshot["BTC"], "market_cap", 0)
        total_mcap == TotalMcap(spot_snapshot, DOMAIN spot_snapshot)
        btc_dominance == <<btc_mcap, total_mcap>>
        hist == H["BTC"]
        prev_dom == Get(Last(hist), "btc_dominance", <<0, 1>>)
        stored ==
            IF Len(hist) > 0
            THEN [H EXCEPT !["BTC"][Len(hist)] =
                      SetKey(Last(hist), "btc_dominance", btc_dominance)]
            ELSE [H EXCEPT !["BTC"] = <<[btc_dominance |-> btc_dominance]>>]
    IN  IF "BTC" \notin DOMAIN spot_snapshot THEN Ret(<<>>, H)
        ELSE IF total_mcap = 0 THEN Ret(<<>>, H)
        ELSE IF Len(hist) > 0 /\ DominanceChanged(btc_dominance, prev_dom)
        THEN Ret(<<[id |-> "btc_dominance_change", level |-> "info"]>>, H)
        ELSE Ret(<<>>, stored)

_check_btc_dominance_change(H, spot_snapshot) ==
    LET btc_mcap == Get(spot_snapshot["BTC"], "market_cap", 0)
        total_mcap == TotalMcap(spot_snapshot, DOMAIN spot_snapshot)
        btc_dominance == <<btc_mcap, total_mcap>>
        hist == H["BTC"]
        prev_dom == Get(Last(hist), "btc_dominance", btc_dominance)
        stored ==
            IF Len(hist) > 0
            THEN [H EXCEPT !["BTC"][Len(hist)] =
                      SetKey(Last(hist), "btc_dominance", btc_dominance)]
            ELSE [H EXCEPT !["BTC"] = <<[btc_dominance |-> btc_dominance]>>]
    IN  IF "BTC" \notin DOMAIN spot_snapshot THEN Ret(<<>>, H)
        ELSE IF total_mcap = 0 THEN Ret(<<>>, H)
        ELSE IF Len(hist) > 0 /\ DominanceChanged(btc_dominance, prev_dom)
        THEN Ret(<<[id |-> "btc_dominance_change", level |-> "info"]>>, H)
        ELSE Ret(<<>>, stored)

\* _determine_regime classifying the empty signal list by its counts
_determine_regime_counts_only(signals, rationale) ==
    LET critical_count == Cardinality({i \in 1..Len(signals) : signals[i].level = "critical"})
        warn_count == Cardinality({i \in 1..Len(signals) : signals[i].level = "warn"})
    IN  [label |-> IF critical_count >= 2 THEN "risk_off"
                   ELSE IF critical_count >= 1 \/ warn_count >= 3 THEN "risk_off"
                   ELSE IF warn_count >= 1 THEN "neutral"
                   ELSE "risk_on",
         rationale |-> FirstN(rationale, RationaleLimit)]

\* _determine_regime keeping the last ten rationale entries
_determine_regime_last_ten(signals, rationale) ==
    LET critical_count == Cardinality({i \in 1..Len(signals) : signals[i].level = "critical"})
        warn_count == Cardinality({i \in 1..Len(signals) : signals[i].level = "warn"})
    IN  IF signals = <<>>
        THEN [label |-> "neutral", rationale |-> <<"No significant signals detected">>]
        ELSE [label |-> IF critical_count >= 2 THEN "risk_off"
                        ELSE IF critical_count >= 1 \/ warn_count >= 3 THEN "risk_off"
                        ELSE IF warn_count >= 1 THEN "neutral"
                        ELSE "risk_on",
              rationale |-> LastN(rationale, RationaleLimit)]

\* _determine_regime with warn_count > 3 instead of warn_count >= 3
_determine_regime_warn_gt(signals, rationale) ==
    LET critical_count == Cardinality({i \in 1..Len(signals) : signals[i].level = "critical"})
        warn_count == Cardinality({i \in 1..Len(signals) : signals[i].level = "warn"})
    IN  IF signals = <<>>
        THEN [label |-> "neutral", rationale |-> <<"No significant signals detected">>]
        ELSE [label |-> IF critical_count >= 2 THEN "risk_off"
                        ELSE IF critical_count >= 1 \/ warn_count > 3 THEN "risk_off"
                        ELSE IF warn_count >= 1 THEN "neutral"
                        ELSE "risk_on",
              rationale |-> FirstN(rationale, RationaleLimit)]

_determine_regime(signals, rationale) ==
    LET critical_count == Cardinality({i \in 1..Len(signals) : signals[i].level = "critical"})
        warn_count == Cardinality({i \in 1..Len(signals) : signals[i].level = "warn"})
    IN  IF signals = <<>>
        THEN [label |-> "neutral", rationale |-> <<"No significant signals detected">>]
        ELSE [label |-> IF critical_count >= 2 THEN "risk_off"
                        ELSE IF critical_count >= 1 \/ warn_count >= 3 THEN "risk_off"
                        ELSE IF warn_count >= 1 THEN "neutral"
                        ELSE "risk_on",
              rationale |-> FirstN(rationale, RationaleLimit)]

\* The loop body of analyze with rule 7 (price drop + volume) evaluated in
\* the place of rule 4 (volume surge) and rule 4 in the place of rule 7
Rule_panic_before_volume(i, H, symbol, spot_snapshot, derivatives_snapshot, utcnow) ==
    CASE i = 1 -> _check_funding_overheated(H, symbol, derivatives_snapshot[symbol])
      [] i = 2 -> _check_oi_surge(H, symbol, derivatives_snapshot[symbol], utcnow)
      [] i = 3 -> _check_volatility_spike(H, symbol, spot_snapshot[symbol])
      [] i = 4 -> _check_price_drop_volume(H, symbol, spot_snapshot[symbol])
      [] i = 5 -> _check_long_short_ratio(H, symbol, derivatives_snapshot[symbol])
      [] i = 6 -> _check_price_oi_surge(H, symbol, spot_snapshot[symbol],
                                        derivatives_snapshot[symbol])
      [] i = 7 -> _check_volume_surge(H, symbol, spot_snapshot[symbol])
      [] i = 8 -> _check_extreme_funding(H, symbol, derivatives_snapshot[symbol])
      [] i = 9 -> _check_liquidation_risk(H, symbol, derivatives_snapshot[symbol])
      [] i = 10 -> _check_momentum_divergence(H, symbol, spot_snapshot[symbol],
                                              derivatives_snapshot[symbol])
      [] i = 11 -> IF symbol = "BTC" /\ Cardinality(DOMAIN spot_snapshot) > 1
                   THEN _check_btc_dominance_change(H, spot_snapshot)
                   ELSE Ret(<<>>, H)

\* The loop body of analyze with rule 11 run for every symbol of a snapshot
\* of several symbols, without the test symbol == "BTC"
Rule_dominance_any_symbol(i, H, symbol, spot_snapshot, derivatives_snapshot, utcnow) ==
    CASE i = 1 -> _check_funding_overheated(H, symbol, derivatives_snapshot[symbol])
      [] i = 2 -> _check_oi_surge(H, symbol, derivatives_snapshot[symbol], utcnow)
      [] i = 3 -> _check_volatility_spike(H, symbol, spot_snapshot[symbol])
      [] i = 4 -> _check_volume_surge(H, symbol, spot_snapshot[symbol])
      [] i = 5 -> _check_long_short_ratio(H, symbol, derivatives_snapshot[symbol])
      [] i = 6 -> _check_price_oi_surge(H, symbol, spot_snapshot[symbol],
                                        derivatives_snapshot[symbol])
      [] i = 7 -> _check_price_drop_volume(H, symbol, spot_snapshot[symbol])
      [] i = 8 -> _check_extreme_funding(H, symbol, derivatives_snapshot[symbol])
      [] i = 9 -> _check_liquidation_risk(H, symbol, derivatives_snapshot[symbol])
      [] i = 10 -> _check_momentum_divergence(H, symbol, spot_snapshot[symbol],
                                              derivatives_snapshot[symbol])
      [] i = 11 -> IF Cardinality(DOMAIN spot_snapshot) > 1
                   THEN _check_btc_dominance_change(H, spot_snapshot)
                   ELSE Ret(<<>>, H)

\* Rule i of the body of the loop of analyze, for one symbol
Rule(i, H, symbol, spot_snapshot, derivatives_snapshot, utcnow) ==
    CASE i = 1 -> _check_funding_overheated(H, symbol, derivatives_snapshot[symbol])
      [] i = 2 -> _check_oi_surge(H, symbol, derivatives_snapshot[symbol], utcnow)
      [] i = 3 -> _check_volatility_spike(H, symbol, spot_snapshot[symbol])
      [] i = 4 -> _check_volume_surge(H, symbol, spot_snapshot[symbol])
      [] i = 5 -> _check_long_short_ratio(H, symbol, derivatives_snapshot[symbol])
      [] i = 6 -> _check_price_oi_surge(H, symbol, spot_snapshot[symbol],
                                        derivatives_snapshot[symbol])
      [] i = 7 -> _check_price_drop_volume(H, symbol, spot_snapshot[symbol])
      [] i = 8 -> _check_extreme_funding(H, symbol, derivatives_snapshot[symbol])
      [] i = 9 -> _check_liquidation_risk(H, symbol, derivatives_snapshot[symbol])
      [] i = 10 -> _check_momentum_divergence(H, symbol, spot_snapshot[symbol],
                                              derivatives_snapshot[symbol])
      [] i = 11 -> IF symbol = "BTC" /\ Cardinality(DOMAIN spot_snapshot) > 1
                   THEN _check_btc_dominance_change(H, spot_snapshot)
                   ELSE Ret(<<>>, H)

\* The entry rule i appends to regime_rationale when it fires
RationaleText(i, symbol) ==
    CASE i = 1 -> symbol \o ": Funding rate elevated"
      [] i = 2 -> symbol \o ": Open interest surge"
      [] i = 3 -> symbol \o ": High volatility"
      [] i = 4 -> symbol \o ": Volume surge"
      [] i = 5 -> symbol \o ": Long/short imbalance"
      [] i = 6 -> symbol \o ": Liquidation risk alert"
      [] i = 7 -> symbol \o ": Potential panic selling"
      [] i = 8 -> symbol \o ": Extreme funding rate"
      [] i = 9 -> symbol \o ": High liquidation risk"
      [] i = 10 -> symbol \o ": Momentum divergence"
      [] i = 11 -> "BTC dominance shift"

\* The body of the loop of analyze for one symbol: rules i to 11 in order,
\* each followed by "if signal: signals.append(signal);
\* regime_rationale.append(text)".
RECURSIVE ProcessSymbol(_, _, _, _, _, _)
ProcessSymbol(acc, i, symbol, spot_snapshot, derivatives_snapshot, utcnow) ==
    IF i > 11 THEN acc
    ELSE LET r == Rule(i, acc.hist, symbol, spot_snapshot, derivatives_snapshot, utcnow)
         IN  IF r.signal # <<>>
             THEN ProcessSymbol(
                      [hist |-> r.hist,
                       signals |-> acc.signals \o r.signal,
                       rationale |-> Append(acc.rationale, RationaleText(i, symbol))],
                      i + 1, symbol, spot_snapshot, derivatives_snapshot, utcnow)
             ELSE ProcessSymbol(
                      [acc EXCEPT !.hist = r.hist],
                      i + 1, symbol, spot_snapshot, derivatives_snapshot, utcnow)

RECURSIVE ProcessSymbols(_, _, _, _, _)
ProcessSymbols(acc, order, spot_snapshot, derivatives_snapshot, utcnow) ==
    IF order = <<>> THEN acc
    ELSE ProcessSymbols(
             ProcessSymbol(acc, 1, Head(order), spot_snapshot, derivatives_snapshot, utcnow),
             Tail(order), spot_snapshot, derivatives_snapshot, utcnow)

\* analyze processing, after the common symbols, the symbols that only the
\* derivatives snapshot has, each on an empty spot record
analyze_derivatives_symbols(H, spot_snapshot, derivatives_snapshot, order, utcnow) ==
    LET extra == (DOMAIN derivatives_snapshot) \ (DOMAIN spot_snapshot)
        spot == [s \in (DOMAIN spot_snapshot) \cup extra |->
                     IF s \in DOMAIN spot_snapshot THEN spot_snapshot[s]
                     ELSE [price |-> 0]]
        acc == ProcessSymbols([hist |-> H, signals |-> <<>>, rationale |-> <<>>],
                              order \o (CHOOSE p \in Perms(extra) : TRUE),
                              spot, derivatives_snapshot, utcnow)
    IN  [signals |-> acc.signals,
         regime |-> _determine_regime(acc.signals, acc.rationale),
         hist |-> acc.hist]

\* SignalEngine.analyze on history H, the symbols of the intersection taken
\* in the given order: the result and the history it leaves.
analyze(H, spot_snapshot, derivatives_snapshot, order, utcnow) ==
    LET acc == ProcessSymbols([hist |-> H, signals |-> <<>>, rationale |-> <<>>],
                              order, spot_snapshot, derivatives_snapshot, utcnow)
    IN  [signals |-> acc.signals,
         regime |-> _determine_regime(acc.signals, acc.rationale),
         hist |-> acc.hist]

\* SignalEngine(): no history for any symbol
EmptyHistory == [s \in Symbols |-> <<>>]

NoCall == [spot |-> <<>>, deriv |-> <<>>, order |-> <<>>,
           signals |-> <<>>, regime |-> [label |-> "none", rationale |-> <<>>]]

\* One call of analyze on the engine.  A Python set is iterated in an order
\* the language does not fix, so the order is any permutation.
Analyze(spot_snapshot, derivatives_snapshot) ==
    \E order \in Perms((DOMAIN spot_snapshot) \cap (DOMAIN derivatives_snapshot)) :
        LET r == analyze(historical_data, spot_snapshot, derivatives_snapshot,
                         order, calls + 1)
        IN  /\ historical_data' = r.hist
            /\ calls' = calls + 1
            /\ covered' = [s \in Symbols |->
                               IF s \in DOMAIN spot_snapshot /\ s \in DOMAIN derivatives_snapshot
                               THEN covered[s] + 1 ELSE covered[s]]
            /\ prev' = last
            /\ last' = [spot |-> spot_snapshot, deriv |-> derivatives_snapshot,
                        order |-> order, signals |-> r.signals, regime |-> r.regime]
            /\ UNCHANGED <<providerVars, response, notifier, loop>>

\* An arbitrary signal list handed to _determine_regime: the list of the
\* last call grows by one signal of the given level and is classified again.
DetermineRegime(level) ==
    LET signals == Append(last.signals, [id |-> "any", level |-> level])
        rationale == [i \in 1..Len(signals) |-> "any"]
    IN  /\ last' = [last EXCEPT !.signals = signals,
                                !.regime = _determine_regime(signals, rationale)]
        /\ UNCHANGED <<historical_data, calls, covered, prev, providerVars, response, notifier, loop>>

---------------------------------------------------------------------------
(* Snapshots the engine is run on *)

SpotData(change_24h, volume_24h, market_cap) ==
    [price |-> 1, change_24h |-> change_24h, volume_24h |-> volume_24h,
     market_cap |-> market_cap]

DerivData(funding_rate, funding_rate_24h, open_interest_usd, long_short_ratio, long_liquidation_24h, short_liquidation_24h) ==
    [funding_rate |-> funding_rate, funding_rate_24h |-> funding_rate_24h,
     open_interest |-> open_interest_usd, open_interest_usd |-> open_interest_usd,
     long_short_ratio |-> long_short_ratio,
     long_liquidation_24h |-> long_liquidation_24h,
     short_liquidation_24h |-> short_liquidation_24h]

\* All mappings from a subset of the symbols to the records offered for each
Snapshots(offer) ==
    UNION {{f \in [S -> UNION {offer[s] : s \in S}] : \A s \in S : f[s] \in offer[s]}
           : S \in SUBSET (DOMAIN offer)}

\* BTC: a quiet day, or a 6% drop on three times the volume
\* ETH: absent, a quiet day, or a 6% rise with half the market cap
SpotOffer ==
    [BTC |-> {SpotData(0, 20, 1000), SpotData(-6, 60, 1000)},
     ETH |-> {SpotData(0, 10, 1000), SpotData(6, 10, 500)}]

\* BTC: open interest 0, 100 or 130 on a balanced book
\* ETH: absent, or an extreme funding rate on a long-heavy book
DerivOffer ==
    [BTC |-> {DerivData(1, 3, 0, 1000, 0, 0), DerivData(1, 3, 100, 1000, 0, 0),
              DerivData(1, 3, 130, 1000, 0, 0)},
     ETH |-> {DerivData(600, 150, 130, 1600, 10, 10)}]

SpotSnapshots == {f \in Snapshots(SpotOffer) : "BTC" \in DOMAIN f}
DerivSnapshots == {f \in Snapshots(DerivOffer) : "BTC" \in DOMAIN f}

\* The long run of one engine: a quiet market in which only BTC's open
\* interest (0 or 100) and its presence vary.
HistSpotSnapshots == {[BTC |-> SpotData(0, 20, 1000), ETH |-> SpotData(0, 10, 1000)]}
HistDerivSnapshots ==
    {<<>>} \cup {[BTC |-> DerivData(1, 3, oi, 1000, 0, 0)] : oi \in {0, 100}}

Levels == {"critical", "warn", "info"}

\* Bounds
MaxCalls == 2
MaxHistCalls == 12
MaxSignals == 4
MaxFetches == 1
MaxMockCalls == 3
MaxMockNow == 119
MaxTextLen == 4

\* The longest text the notifier gives the API in one message: 4096 in the
\* code (MAX_MESSAGE_LENGTH), a few characters here
MAX_MESSAGE_LENGTH == 3
MaxNow == 60

---------------------------------------------------------------------------
(* Providers: MockMarketProvider and PublicProvider *)

\* str.upper() and str.lower() on the strings the requests use
UpperCase == [btc |-> "BTC", eth |-> "ETH", sol |-> "SOL"]
LowerCase == [Public |-> "public", MOCK |-> "mock"]

upper(symbol) == Get(UpperCase, symbol, symbol)
lower(name) == Get(LowerCase, name, name)

SYMBOL_TO_COINGECKO_ID ==
    [BTC |-> "bitcoin", ETH |-> "ethereum", BNB |-> "binancecoin",
     SOL |-> "solana", ADA |-> "cardano", XRP |-> "ripple",
     DOGE |-> "dogecoin", DOT |-> "polkadot", MATIC |-> "matic-network",
     AVAX |-> "avalanche-2"]

SYMBOL_TO_BINANCE_SYMBOL ==
    [BTC |-> "BTCUSDT", ETH |-> "ETHUSDT", BNB |-> "BNBUSDT",
     SOL |-> "SOLUSDT", ADA |-> "ADAUSDT", XRP |-> "XRPUSDT",
     DOGE |-> "DOGEUSDT", DOT |-> "DOTUSDT", MATIC |-> "MATICUSDT",
     AVAX |-> "AVAXUSDT"]

\* MockMarketProvider.BASE_PRICES, and BASE_MARKET_CAPS in units of 1e8 USD.
\* The mock's market caps and volumes are in units of 1e8 USD, its open
\* interest and liquidations in units of 1e7 USD; no rule of the engine
\* compares an amount of one kind with an amount of the other.
BASE_PRICES == [BTC |-> 45000, ETH |-> 2500]
BASE_MARKET_CAPS == [BTC |-> 9000, ETH |-> 3000]

\* A cached record is served while it is less than this many seconds old
CacheSeconds == 60

\* What random.uniform draws for one spot record: change_24h in -8..8
\* percent and volume_multiplier in 0.02..0.05 (units of 0.001)
MockSpotDraws ==
    {[change_24h |-> 0, volume_multiplier |-> 20],
     [change_24h |-> -8, volume_multiplier |-> 46]}

\* What random.uniform draws for one derivatives record: funding_rate in
\* -0.001..0.001, open interest 0.1..0.3 of the market cap (units of 0.001),
\* long_short_ratio in 0.8..1.2, liquidations in 1e7..1e8 USD
MockDerivDraws ==
    {[funding_rate |-> 1, oi_multiplier |-> 100, long_short_ratio |-> 1000,
      long_liquidation_24h |-> 1, short_liquidation_24h |-> 1],
     [funding_rate |-> 8, oi_multiplier |-> 300, long_short_ratio |-> 1200,
      long_liquidation_24h |-> 10, short_liquidation_24h |-> 2]}

\* spot_data of MockMarketProvider.get_spot_snapshot for one symbol
MockSpotData(symbol_upper, draw, utcnow) ==
    LET base_market_cap == BASE_MARKET_CAPS[symbol_upper]
    IN  [price |-> BASE_PRICES[symbol_upper],
         change_24h |-> draw.change_24h,
         volume_24h |-> (base_market_cap * draw.volume_multiplier) \div 1000,
         market_cap |-> (base_market_cap * (100 + draw.change_24h)) \div 100,
         timestamp |-> utcnow]

\* derivatives_data of MockMarketProvider.get_derivatives_snapshot
MockDerivData(symbol_upper, draw, utcnow) ==
    LET open_interest == (BASE_MARKET_CAPS[symbol_upper] * 10 * draw.oi_multiplier) \div 1000
    IN  [funding_rate |-> draw.funding_rate,
         funding_rate_24h |-> draw.funding_rate * 3,
         open_interest |-> open_interest,
         open_interest_usd |-> open_interest,
         long_short_ratio |-> draw.long_short_ratio,
         long_liquidation_24h |-> draw.long_liquidation_24h,
         short_liquidation_24h |-> draw.short_liquidation_24h,
         timestamp |-> utcnow]

\* {k: v for k, v in cached.items() if not k.startswith("_")}
PublicFields(cached) == [k \in (DOMAIN cached) \ {"_timestamp"} |-> cached[k]]

\* The loop serving a cached record that is exactly 60 s old
RECURSIVE MockSnapshot_serve_at_60(_, _, _, _, _)
MockSnapshot_serve_at_60(acc, symbols, generated, utcnow, k) ==
    IF k > Len(symbols) THEN acc
    ELSE LET symbol_upper == upper(symbols[k]) IN
         IF symbol_upper \notin DOMAIN BASE_PRICES
         THEN MockSnapshot_serve_at_60(acc, symbols, generated, utcnow, k + 1)
         ELSE IF /\ symbol_upper \in DOMAIN acc.cache
                 /\ utcnow - acc.cache[symbol_upper]._timestamp <= CacheSeconds
         THEN MockSnapshot_serve_at_60(
                  [acc EXCEPT !.result = SetKey(@, symbol_upper,
                                                PublicFields(acc.cache[symbol_upper]))],
                  symbols, generated, utcnow, k + 1)
         ELSE LET data == SetKey(generated[symbol_upper], "_timestamp", utcnow)
              IN  MockSnapshot_serve_at_60(
                      [result |-> SetKey(acc.result, symbol_upper, PublicFields(data)),
                       cache |-> SetKey(acc.cache, symbol_upper, data)],
                      symbols, generated, utcnow, k + 1)

\* The loop of MockMarketProvider.get_spot_snapshot and of
\* get_derivatives_snapshot over the requested symbols: unknown symbols are
\* skipped, a record younger than 60 s is served from the cache, any other
\* is generated, cached with its time, and returned without the time.
RECURSIVE MockSnapshot(_, _, _, _, _)
MockSnapshot(acc, symbols, generated, utcnow, k) ==
    IF k > Len(symbols) THEN acc
    ELSE LET symbol_upper == upper(symbols[k]) IN
         IF symbol_upper \notin DOMAIN BASE_PRICES
         THEN MockSnapshot(acc, symbols, generated, utcnow, k + 1)
         ELSE IF /\ symbol_upper \in DOMAIN acc.cache
                 /\ utcnow - acc.cache[symbol_upper]._timestamp < CacheSeconds
         THEN MockSnapshot(
                  [acc EXCEPT !.result = SetKey(@, symbol_upper,
                                                PublicFields(acc.cache[symbol_upper]))],
                  symbols, generated, utcnow, k + 1)
         ELSE LET data == SetKey(generated[symbol_upper], "_timestamp", utcnow)
              IN  MockSnapshot(
                      [result |-> SetKey(acc.result, symbol_upper, PublicFields(data)),
                       cache |-> SetKey(acc.cache, symbol_upper, data)],
                      symbols, generated, utcnow, k + 1)

\* MockMarketProvider.get_spot_snapshot: the snapshot and the cache it leaves
Mock_get_spot_snapshot(cache, symbols, utcnow, draw) ==
    MockSnapshot([result |-> <<>>, cache |-> cache], symbols,
                 [s \in DOMAIN BASE_PRICES |-> MockSpotData(s, draw[s], utcnow)],
                 utcnow, 1)

\* MockMarketProvider.get_derivatives_snapshot
Mock_get_derivatives_snapshot(cache, symbols, utcnow, draw) ==
    MockSnapshot([result |-> <<>>, cache |-> cache], symbols,
                 [s \in DOMAIN BASE_PRICES |-> MockDerivData(s, draw[s], utcnow)],
                 utcnow, 1)

\* The outcome of one upstream HTTP call as the provider's code sees it:
\*   ok             a response whose body parses
\*   http_error     httpx.HTTPStatusError from raise_for_status()
\*   request_error  httpx.RequestError: timeout, connection failure
\*   value_error    KeyError or ValueError: a body that is not JSON, a
\*                  number that does not parse
\*   type_error     TypeError: a field of the wrong type
\*   other_error    any other exception, e.g. AttributeError on a body of
\*                  the wrong shape
Outcomes == {"ok", "http_error", "request_error", "value_error", "type_error",
             "other_error"}

\* The Binance endpoints get_derivatives_snapshot calls for one symbol, in order
Endpoints == <<"premiumIndex", "fundingRate", "openInterest",
               "globalLongShortAccountRatio", "forceOrders">>

NoFetch ==
    [provider |-> "none", kind |-> "none", symbols |-> <<>>, pc |-> "IDLE",
     i |-> 0, stage |-> 0, result |-> <<>>, returned |-> <<>>,
     live_calls |-> <<>>, fallback_calls |-> <<>>, trace |-> <<>>, n |-> 0]

\* The least index k >= from of a symbol Binance lists, or Len(symbols) + 1
RECURSIVE NextListed(_, _)
NextListed(symbols, from) ==
    IF from > Len(symbols) THEN from
    ELSE IF upper(symbols[from]) \in DOMAIN SYMBOL_TO_BINANCE_SYMBOL THEN from
    ELSE NextListed(symbols, from + 1)

\* A call of get_spot_snapshot or get_derivatives_snapshot begins, the n-th
\* on its provider.
\* live_calls and fallback_calls record the calls it makes to the upstream
\* and to the fallback provider, trace the states it goes through.
StartFetch(provider, kind, symbols, n) ==
    [provider |-> provider, kind |-> kind, symbols |-> symbols,
     pc |-> "REQUESTED",
     i |-> IF kind = "derivatives" THEN NextListed(symbols, 1) ELSE 1,
     stage |-> 1, result |-> <<>>, returned |-> <<>>,
     live_calls |-> <<>>, fallback_calls |-> <<>>, trace |-> <<"REQUESTED">>,
     n |-> n]

ToFallback(f) ==
    [f EXCEPT !.pc = "FALLBACK_REQUESTED", !.trace = Append(@, "FALLBACK_REQUESTED")]

ToDone(f, returned) ==
    [f EXCEPT !.pc = "DONE", !.returned = returned, !.trace = Append(@, "DONE")]

\* symbol_map of get_spot_snapshot: coin_id -> symbol
SymbolMap(symbols) ==
    LET valid == {upper(symbols[k]) : k \in 1..Len(symbols)}
                     \cap DOMAIN SYMBOL_TO_COINGECKO_ID
    IN  [coin_id \in {SYMBOL_TO_COINGECKO_ID[s] : s \in valid} |->
             CHOOSE s \in valid : SYMBOL_TO_COINGECKO_ID[s] = coin_id]

\* One entry of the CoinGecko response turned into a spot record
LiveSpotData(data, utcnow) ==
    [price |-> Get(data, "usd", 0),
     change_24h |-> Get(data, "usd_24h_change", 0),
     volume_24h |-> Get(data, "usd_24h_vol", 0),
     market_cap |-> Get(data, "usd_market_cap", 0),
     timestamp |-> utcnow]

\* get_spot_snapshot trying the upstream call again after a request error
spot_response_retry(f, outcome, price_data, utcnow) ==
    LET symbol_map == SymbolMap(f.symbols)
        g == [f EXCEPT !.live_calls =
                  Append(@, [i |-> 0, endpoint |-> "simple/price", outcome |-> outcome])]
        known == (DOMAIN price_data) \cap (DOMAIN symbol_map)
        result == [s \in {symbol_map[c] : c \in known} |->
                       LiveSpotData(price_data[SYMBOL_TO_COINGECKO_ID[s]], utcnow)]
    IN  IF outcome = "request_error" /\ f.live_calls = <<>> THEN g
        ELSE IF outcome # "ok" THEN ToFallback(g)
        ELSE IF DOMAIN result # {} THEN ToDone([g EXCEPT !.result = result], result)
        ELSE ToFallback(g)

\* get_spot_snapshot keeping every coin of the response, a coin that was not
\* requested under its CoinGecko id
spot_response_all_coins(f, outcome, price_data, utcnow) ==
    LET symbol_map == SymbolMap(f.symbols)
        g == [f EXCEPT !.live_calls =
                  Append(@, [i |-> 0, endpoint |-> "simple/price", outcome |-> outcome])]
        key == [c \in DOMAIN price_data |->
                    IF c \in DOMAIN symbol_map THEN symbol_map[c] ELSE c]
        result == [s \in {key[c] : c \in DOMAIN price_data} |->
                       LiveSpotData(price_data[CHOOSE c \in DOMAIN price_data : key[c] = s],
                                    utcnow)]
    IN  IF outcome # "ok" THEN ToFallback(g)
        ELSE IF DOMAIN result # {} THEN ToDone([g EXCEPT !.result = result], result)
        ELSE ToFallback(g)

\* get_spot_snapshot after its one upstream call returned: a failure of any
\* kind, or a response without a requested coin, goes to the fallback.
spot_response(f, outcome, price_data, utcnow) ==
    LET symbol_map == SymbolMap(f.symbols)
        g == [f EXCEPT !.live_calls =
                  Append(@, [i |-> 0, endpoint |-> "simple/price", outcome |-> outcome])]
        known == (DOMAIN price_data) \cap (DOMAIN symbol_map)
        result == [s \in {symbol_map[c] : c \in known} |->
                       LiveSpotData(price_data[SYMBOL_TO_COINGECKO_ID[s]], utcnow)]
    IN  IF outcome # "ok" THEN ToFallback(g)
        ELSE IF DOMAIN result # {} THEN ToDone([g EXCEPT !.result = result], result)
        ELSE ToFallback(g)

\* The record get_derivatives_snapshot builds for a symbol from the four
\* required responses, with the liquidations of forceOrders or 0.0 without
LiveDerivData(with_liquidations, utcnow) ==
    [funding_rate |-> 1, funding_rate_24h |-> 1,
     open_interest |-> 5, open_interest_usd |-> 500,
     long_short_ratio |-> 1000,
     long_liquidation_24h |-> IF with_liquidations THEN 5 ELSE 0,
     short_liquidation_24h |-> IF with_liquidations THEN 5 ELSE 0,
     timestamp |-> utcnow]

\* The loop returning its result even when it is empty
LoopNext_return_empty(g, result) ==
    LET k == NextListed(g.symbols, g.i + 1)
        h == [g EXCEPT !.i = k, !.stage = 1, !.result = result]
    IN  IF k <= Len(g.symbols) THEN h ELSE ToDone(h, result)

\* The for loop of get_derivatives_snapshot moves to the next listed symbol;
\* after the last one the result is returned if it is non-empty, and the
\* fallback is asked otherwise.
LoopNext(g, result) ==
    LET k == NextListed(g.symbols, g.i + 1)
        h == [g EXCEPT !.i = k, !.stage = 1, !.result = result]
    IN  IF k <= Len(g.symbols) THEN h
        ELSE IF DOMAIN result # {} THEN ToDone(h, result)
        ELSE ToFallback(h)

\* get_derivatives_snapshot asking the fallback after any failed call
derivatives_response_fallback_on_failure(f, outcome, utcnow) ==
    LET g == [f EXCEPT !.live_calls =
                  Append(@, [i |-> f.i, endpoint |-> Endpoints[f.stage],
                             outcome |-> outcome])]
    IN  IF outcome # "ok" THEN ToFallback(g)
        ELSE IF f.stage < Len(Endpoints) THEN [g EXCEPT !.stage = @ + 1]
        ELSE LoopNext(g, SetKey(g.result, upper(f.symbols[f.i]),
                                LiveDerivData(TRUE, utcnow)))

\* get_derivatives_snapshot after one upstream call for symbols[i] returned.
\* A call for premiumIndex, fundingRate, openInterest or
\* globalLongShortAccountRatio that fails with an HTTP, request, key, value
\* or type error skips the symbol; a forceOrders call that fails with an
\* HTTP, request, key or value error leaves the liquidations at 0.0, and one
\* that fails with a type error skips the symbol; any other exception leaves
\* the loop for the fallback.
derivatives_response(f, outcome, utcnow) ==
    LET symbol_upper == upper(f.symbols[f.i])
        g == [f EXCEPT !.live_calls =
                  Append(@, [i |-> f.i, endpoint |-> Endpoints[f.stage],
                             outcome |-> outcome])]
    IN  IF outcome = "other_error" THEN ToFallback(g)
        ELSE IF f.stage < Len(Endpoints)
        THEN IF outcome = "ok" THEN [g EXCEPT !.stage = @ + 1]
             ELSE LoopNext(g, g.result)
        ELSE IF outcome = "ok"
        THEN LoopNext(g, SetKey(g.result, symbol_upper, LiveDerivData(TRUE, utcnow)))
        ELSE IF outcome \in {"http_error", "request_error", "value_error"}
        THEN LoopNext(g, SetKey(g.result, symbol_upper, LiveDerivData(FALSE, utcnow)))
        ELSE LoopNext(g, g.result)

\* PublicProvider.get_spot_snapshot is called
GetSpotSnapshot(symbols) ==
    /\ fetch.pc \in {"IDLE", "DONE"}
    /\ fetch' = StartFetch("public", "spot", symbols, fetch.n + 1)
    /\ UNCHANGED <<engineVars, spot_cache, derivatives_cache, now, market_provider, response, notifier, loop>>

\* PublicProvider.get_derivatives_snapshot is called
GetDerivativesSnapshot(symbols) ==
    /\ fetch.pc \in {"IDLE", "DONE"}
    /\ fetch' = StartFetch("public", "derivatives", symbols, fetch.n + 1)
    /\ UNCHANGED <<engineVars, spot_cache, derivatives_cache, now, market_provider, response, notifier, loop>>

\* No requested symbol has a CoinGecko id, or none is listed by Binance:
\* the fallback is asked without an upstream call.
NoValidSymbols ==
    /\ fetch.provider = "public"
    /\ fetch.pc = "REQUESTED"
    /\ fetch.live_calls = <<>>
    /\ \/ fetch.kind = "spot" /\ DOMAIN SymbolMap(fetch.symbols) = {}
       \/ fetch.kind = "derivatives" /\ fetch.i > Len(fetch.symbols)
    /\ fetch' = ToFallback(fetch)
    /\ UNCHANGED <<engineVars, spot_cache, derivatives_cache, now, market_provider, response, notifier, loop>>

\* The CoinGecko call of get_spot_snapshot returns
SpotResponse(outcome, price_data) ==
    /\ fetch.provider = "public"
    /\ fetch.kind = "spot"
    /\ fetch.pc = "REQUESTED"
    /\ DOMAIN SymbolMap(fetch.symbols) # {}
    /\ fetch' = spot_response(fetch, outcome, price_data, now)
    /\ UNCHANGED <<engineVars, spot_cache, derivatives_cache, now, market_provider, response, notifier, loop>>

\* A Binance call of get_derivatives_snapshot returns
DerivativesResponse(outcome) ==
    /\ fetch.provider = "public"
    /\ fetch.kind = "derivatives"
    /\ fetch.pc = "REQUESTED"
    /\ fetch.i <= Len(fetch.symbols)
    /\ fetch' = derivatives_response(fetch, outcome, now)
    /\ UNCHANGED <<engineVars, spot_cache, derivatives_cache, now, market_provider, response, notifier, loop>>

\* self._fallback_provider.get_spot_snapshot(symbols) returns
FallbackSpot(draw) ==
    /\ fetch.provider = "public"
    /\ fetch.kind = "spot"
    /\ fetch.pc = "FALLBACK_REQUESTED"
    /\ LET r == Mock_get_spot_snapshot(spot_cache, fetch.symbols, now, draw)
       IN  /\ fetch' = ToDone([fetch EXCEPT !.fallback_calls =
                                   Append(@, [symbols |-> fetch.symbols,
                                              result |-> r.result])],
                              r.result)
           /\ spot_cache' = r.cache
    /\ UNCHANGED <<engineVars, derivatives_cache, now, market_provider, response, notifier, loop>>

\* self._fallback_provider.get_derivatives_snapshot(symbols) returns
FallbackDerivatives(draw) ==
    /\ fetch.provider = "public"
    /\ fetch.kind = "derivatives"
    /\ fetch.pc = "FALLBACK_REQUESTED"
    /\ LET r == Mock_get_derivatives_snapshot(derivatives_cache, fetch.symbols, now, draw)
       IN  /\ fetch' = ToDone([fetch EXCEPT !.fallback_calls =
                                   Append(@, [symbols |-> fetch.symbols,
                                              result |-> r.result])],
                              r.result)
           /\ derivatives_cache' = r.cache
    /\ UNCHANGED <<engineVars, spot_cache, now, market_provider, response, notifier, loop>>

\* A MockMarketProvider selected by the factory answers a fetch itself
MockResponse(spot_draw, deriv_draw) ==
    /\ fetch.provider = "mock"
    /\ fetch.pc = "REQUESTED"
    /\ LET r == IF fetch.kind = "spot"
                THEN Mock_get_spot_snapshot(spot_cache, fetch.symbols, now, spot_draw)
                ELSE Mock_get_derivatives_snapshot(derivatives_cache, fetch.symbols,
                                                   now, deriv_draw)
       IN  /\ fetch' = ToDone(fetch, r.result)
           /\ spot_cache' = IF fetch.kind = "spot" THEN r.cache ELSE spot_cache
           /\ derivatives_cache' =
                  IF fetch.kind = "spot" THEN derivatives_cache ELSE r.cache
           /\ market_provider' = [market_provider EXCEPT !.calls =
                               Append(@, [kind |-> fetch.kind, symbols |-> fetch.symbols,
                                          time |-> now, returned |-> r.result])]
    /\ UNCHANGED <<engineVars, now, response, notifier, loop>>

\* Time passes between two fetches
Tick(seconds) ==
    /\ fetch.pc \in {"IDLE", "DONE"}
    /\ now' = now + seconds
    /\ UNCHANGED <<engineVars, fetch, spot_cache, derivatives_cache, market_provider, response, notifier, loop>>

---------------------------------------------------------------------------
(* The daily report route *)

\* get_market_provider building no provider for an unknown key
get_market_provider_strict(provider) ==
    LET provider_type == lower(provider)
    IN  IF provider_type = "mock" THEN "mock"
        ELSE IF provider_type = "public" THEN "public"
        ELSE IF provider_type = "real" THEN "mock"
        ELSE "none"

\* get_market_provider: the provider class for settings.provider
get_market_provider(provider) ==
    LET provider_type == lower(provider)
    IN  IF provider_type = "mock" THEN "mock"
        ELSE IF provider_type = "public" THEN "public"
        ELSE IF provider_type = "real" THEN "mock"
        ELSE "mock"

\* MockMarketProvider.is_available and PublicProvider.is_available
is_available(class) == TRUE

\* No provider built yet
NoProvider == [setting |-> "none", class |-> "none", calls |-> <<>>]

\* The instance the factory returns for settings.provider; calls is the log
\* of the calls a MockMarketProvider instance has answered
NewProvider(setting) ==
    [setting |-> setting, class |-> get_market_provider(setting), calls |-> <<>>]

\* get_market_provider() is called: a new instance, its caches empty
GetMarketProvider(setting) ==
    /\ market_provider.class = "none"
    /\ market_provider' = NewProvider(setting)
    /\ spot_cache' = <<>>
    /\ derivatives_cache' = <<>>
    /\ UNCHANGED <<engineVars, fetch, now, response, notifier, loop>>

\* get_spot_snapshot or get_derivatives_snapshot is called on the
\* MockMarketProvider the factory built
MockGetSnapshot(kind, symbols) ==
    /\ market_provider.class = "mock"
    /\ fetch.pc \in {"IDLE", "DONE"}
    /\ fetch' = StartFetch("mock", kind, symbols, fetch.n + 1)
    /\ UNCHANGED <<engineVars, spot_cache, derivatives_cache, now, market_provider, response, notifier, loop>>

NoResponse ==
    [pc |-> "IDLE", provider |-> "none", symbols |-> <<>>, spot |-> <<>>,
     deriv |-> <<>>, upstream |-> <<>>, status |-> 0, markdown |-> FALSE,
     signals |-> <<>>, regime |-> [label |-> "none", rationale |-> <<>>],
     news |-> <<>>, telegram_sent |-> FALSE]

\* POST /report/daily arrives: the factory builds a provider with an empty
\* cache, is_available() is True, and get_spot_snapshot is awaited.
ReportRequest(provider, symbols) ==
    /\ response.pc \in {"IDLE", "DONE"}
    /\ response' = [NoResponse EXCEPT !.pc = "SPOT",
                                      !.provider = get_market_provider(provider),
                                      !.symbols = symbols]
    /\ fetch' = StartFetch(get_market_provider(provider), "spot", symbols, 1)
    /\ spot_cache' = <<>>
    /\ derivatives_cache' = <<>>
    /\ market_provider' = NewProvider(provider)
    /\ UNCHANGED <<engineVars, now, notifier, loop>>

\* get_spot_snapshot returned: get_derivatives_snapshot is awaited
ReportSpotFetched ==
    /\ response.pc = "SPOT"
    /\ fetch.pc = "DONE"
    /\ response' = [response EXCEPT !.pc = "DERIVATIVES",
                                    !.spot = fetch.returned,
                                    !.upstream = @ \o fetch.live_calls]
    /\ fetch' = StartFetch(response.provider, "derivatives", response.symbols, 2)
    /\ UNCHANGED <<engineVars, spot_cache, derivatives_cache, now, market_provider, notifier, loop>>

\* The HTTPException the route raises
Failure(r, status) ==
    [r EXCEPT !.pc = "DONE", !.status = status]

\* get_derivatives_snapshot returned and get_news_snapshot after it: an empty
\* spot or derivatives snapshot is answered with 502; otherwise a new
\* SignalEngine analyzes the snapshots, ReportWriter renders the report, the
\* report is sent to Telegram when that is enabled and configured, and the
\* response is built.
ReportFinish(news_snapshot, send_telegram, is_configured) ==
    /\ response.pc = "DERIVATIVES"
    /\ fetch.pc = "DONE"
    /\ LET spot_snapshot == response.spot
           derivatives_snapshot == fetch.returned
           r == [response EXCEPT !.deriv = derivatives_snapshot,
                                 !.upstream = @ \o fetch.live_calls,
                                 !.news = news_snapshot]
           common == (DOMAIN spot_snapshot) \cap (DOMAIN derivatives_snapshot)
       IN  IF DOMAIN spot_snapshot = {} \/ DOMAIN derivatives_snapshot = {}
           THEN response' = Failure(r, 502)
           ELSE \E order \in Perms(common) :
                    LET signal_result ==
                            analyze([s \in common |-> <<>>], spot_snapshot,
                                    derivatives_snapshot, order, now)
                    IN  response' =
                            [r EXCEPT !.pc = "DONE", !.status = 200,
                                      !.markdown = TRUE,
                                      !.signals = signal_result.signals,
                                      !.regime = signal_result.regime,
                                      !.telegram_sent = send_telegram /\ is_configured]
    /\ UNCHANGED <<engineVars, providerVars, notifier, loop>>

---------------------------------------------------------------------------
(* The Telegram notifier.  A text is the sequence of its characters. *)

\* str.split(sep) for a non-empty separator
RECURSIVE split(_, _)
split(text, sep) ==
    LET at == {i \in 1..(Len(text) - Len(sep) + 1) : SubSeq(text, i, i + Len(sep) - 1) = sep}
    IN  IF at = {} THEN <<text>>
        ELSE LET i == CHOOSE i \in at : \A j \in at : i <= j
             IN  <<SubSeq(text, 1, i - 1)>>
                     \o split(SubSeq(text, i + Len(sep), Len(text)), sep)

Whitespace == {" ", "\n"}

\* str.split(): the maximal runs of characters that are not whitespace
RECURSIVE split_whitespace(_)
split_whitespace(text) ==
    IF text = <<>> THEN <<>>
    ELSE IF Head(text) \in Whitespace THEN split_whitespace(Tail(text))
    ELSE LET stops == {i \in 1..Len(text) : text[i] \in Whitespace}
             end == IF stops = {} THEN Len(text) + 1
                    ELSE CHOOSE i \in stops : \A j \in stops : i <= j
         IN  <<SubSeq(text, 1, end - 1)>>
                 \o split_whitespace(SubSeq(text, end, Len(text)))

\* sep.join(parts)
RECURSIVE join(_, _)
join(sep, parts) ==
    IF parts = <<>> THEN <<>>
    ELSE IF Len(parts) = 1 THEN parts[1]
    ELSE parts[1] \o sep \o join(sep, Tail(parts))

\* html.escape on the characters of the texts below
RECURSIVE escape(_)
escape(text) ==
    IF text = <<>> THEN <<>>
    ELSE (IF Head(text) = "&" THEN <<"&", "a", "m", "p", ";">> ELSE <<Head(text)>>)
             \o escape(Tail(text))

\* TelegramNotifier._format_text.  A text without markdown syntax, tables
\* or tags passes _markdown_to_html unchanged up to its last step, which
\* escapes it.
_format_text(cfg, text) ==
    IF cfg.parse_mode = "HTML"
    THEN IF cfg.wrap_pre
         THEN <<"<", "p", "r", "e", ">">> \o escape(text) \o <<"<", "/", "p", "r", "e", ">">>
         ELSE escape(text)
    ELSE text

\* A word kept in one piece whatever its length
Chop_whole(text, max_length) == <<text>>

\* [text[i : i + max_length] for i in range(0, len(text), max_length)]
Chop(text, max_length) ==
    [k \in 1..((Len(text) + max_length - 1) \div max_length) |->
         SubSeq(text, (k - 1) * max_length + 1,
                IF k * max_length <= Len(text) THEN k * max_length ELSE Len(text))]

\* The loop of _force_split over the words of a line that is too long
RECURSIVE WordsLoop(_, _, _, _, _)
WordsLoop(chunks, current_line, words, k, max_length) ==
    IF k > Len(words) THEN [chunks |-> chunks, current_line |-> current_line]
    ELSE LET word == words[k]
             test_line == current_line \o (IF current_line # <<>> THEN <<" ">> ELSE <<>>)
                              \o word
             saved == IF current_line # <<>> THEN Append(chunks, current_line) ELSE chunks
         IN  IF Len(test_line) <= max_length
             THEN WordsLoop(chunks, test_line, words, k + 1, max_length)
             ELSE IF Len(word) > max_length
             THEN WordsLoop(saved \o Chop(word, max_length), <<>>, words, k + 1, max_length)
             ELSE WordsLoop(saved, word, words, k + 1, max_length)

\* The loop of _force_split over the lines of the text
RECURSIVE LinesLoop(_, _, _, _, _)
LinesLoop(chunks, current_chunk, lines, k, max_length) ==
    IF k > Len(lines) THEN [chunks |-> chunks, current_chunk |-> current_chunk]
    ELSE LET line == lines[k]
             test_chunk == current_chunk \o (IF current_chunk # <<>> THEN <<"\n">> ELSE <<>>)
                               \o line
             saved == IF current_chunk # <<>> THEN Append(chunks, current_chunk) ELSE chunks
         IN  IF Len(test_chunk) <= max_length
             THEN LinesLoop(chunks, test_chunk, lines, k + 1, max_length)
             ELSE IF Len(line) > max_length
             THEN LET w == WordsLoop(saved, <<>>, split_whitespace(line), 1, max_length)
                  IN  LinesLoop(w.chunks, w.current_line, lines, k + 1, max_length)
             ELSE LinesLoop(saved, line, lines, k + 1, max_length)

\* TelegramNotifier._force_split
_force_split(text, max_length) ==
    LET r == LinesLoop(<<>>, <<>>, split(text, <<"\n">>), 1, max_length)
        chunks == IF r.current_chunk # <<>> THEN Append(r.chunks, r.current_chunk)
                  ELSE r.chunks
    IN  IF chunks = <<>> /\ text # <<>> THEN Chop(text, max_length) ELSE chunks

\* The loop of split_and_send over the paragraphs: the texts it hands to
\* _send_message, in order.  current_chunk is a list of formatted paragraphs.
RECURSIVE ParagraphsLoop(_, _, _, _, _)
ParagraphsLoop(messages, current_chunk, paragraphs, k, cfg) ==
    IF k > Len(paragraphs)
    THEN IF current_chunk # <<>>
         THEN Append(messages, join(<<"\n", "\n">>, current_chunk))
         ELSE messages
    ELSE LET formatted_para == _format_text(cfg, paragraphs[k])
             test_chunk == join(<<"\n", "\n">>, Append(current_chunk, formatted_para))
             sent == IF current_chunk # <<>>
                     THEN Append(messages, join(<<"\n", "\n">>, current_chunk))
                     ELSE messages
         IN  IF Len(test_chunk) <= MAX_MESSAGE_LENGTH
             THEN ParagraphsLoop(messages, Append(current_chunk, formatted_para),
                                 paragraphs, k + 1, cfg)
             ELSE IF Len(formatted_para) > MAX_MESSAGE_LENGTH
             THEN ParagraphsLoop(sent \o _force_split(formatted_para, MAX_MESSAGE_LENGTH),
                                 <<>>, paragraphs, k + 1, cfg)
             ELSE ParagraphsLoop(sent, <<formatted_para>>, paragraphs, k + 1, cfg)

\* The texts split_and_send hands to _send_message
split_and_send(cfg, text) ==
    ParagraphsLoop(<<>>, <<>>, split(text, <<"\n", "\n">>), 1, cfg)

\* TelegramNotifier.is_configured; None is the empty string
notifier_is_configured(cfg) == cfg.bot_token # "" /\ cfg.chat_id # "" /\ cfg.enabled

\* _send_message letting an error that is not a requests exception through
_send_message_reraise(outcome) ==
    IF outcome = "ok" THEN "True"
    ELSE IF outcome = "other_error" THEN "raised"
    ELSE "False"

\* TelegramNotifier._send_message by what the API call did: True when the
\* response is 200 with ok = true; every failure is caught and gives False.
_send_message(outcome) == IF outcome = "ok" THEN "True" ELSE "False"

ApiOutcomes == {"ok", "ok_false", "http_error", "request_error", "bad_json", "other_error"}

NoSend ==
    [pc |-> "IDLE", caller |-> "none", cfg |-> <<>>, text |-> <<>>, path |-> "none",
     max_length |-> 0, messages |-> <<>>, i |-> 0, success_count |-> 0,
     failed |-> 0, result |-> "none", status |-> 0, telegram_sent |-> FALSE]

\* What the caller gets when send has returned or raised.  The route
\* (generate_daily_report) sets telegram_sent after send returned and
\* catches what send raises; its response is the report either way.
Finished(s, result) ==
    [s EXCEPT !.pc = "DONE", !.result = result,
              !.status = IF s.caller = "route" THEN 200 ELSE 0,
              !.telegram_sent = s.caller = "route" /\ result # "raised"]

\* send up to its first API call: nothing is sent when the notifier is not
\* configured, one message when the formatted text fits, the messages of
\* split_and_send on the unformatted text otherwise.
send(caller, cfg, text) ==
    LET formatted_text == _format_text(cfg, text)
        s == [NoSend EXCEPT !.caller = caller, !.cfg = cfg, !.text = text]
    IN  IF ~notifier_is_configured(cfg) THEN Finished([s EXCEPT !.path = "unconfigured"], "False")
        ELSE IF Len(formatted_text) > MAX_MESSAGE_LENGTH
        THEN LET messages == split_and_send(cfg, text)
             IN  IF messages = <<>> THEN Finished([s EXCEPT !.path = "split"], "False")
                 ELSE [s EXCEPT !.pc = "SENDING", !.path = "split", !.messages = messages]
        ELSE [s EXCEPT !.pc = "SENDING", !.path = "single",
                       !.messages = <<formatted_text>>]

\* telegram_notifier.send(text) is called
Send(cfg, text) ==
    /\ notifier.pc = "IDLE"
    /\ notifier' = send("direct", cfg, text)
    /\ UNCHANGED <<engineVars, providerVars, response, loop>>

\* generate_daily_report has its report and reaches the Telegram block
RouteSend(send_telegram, cfg, markdown) ==
    /\ notifier.pc = "IDLE"
    /\ notifier' =
           IF ~send_telegram
           THEN [NoSend EXCEPT !.pc = "DONE", !.caller = "route", !.cfg = cfg,
                               !.text = markdown, !.path = "disabled", !.status = 200]
           ELSE IF ~notifier_is_configured(cfg)
           THEN [NoSend EXCEPT !.pc = "DONE", !.caller = "route", !.cfg = cfg,
                               !.text = markdown, !.path = "unconfigured", !.status = 200]
           ELSE send("route", cfg, markdown)
    /\ UNCHANGED <<engineVars, providerVars, response, loop>>

\* The API call of the next message returns; after the last message send
\* returns: the result of its one call, or whether any call of
\* split_and_send succeeded.
ApiResponse(outcome) ==
    /\ notifier.pc = "SENDING"
    /\ LET sent == _send_message(outcome)
           s == [notifier EXCEPT !.i = @ + 1,
                                 !.success_count = IF sent = "True" THEN @ + 1 ELSE @,
                                 !.failed = IF sent = "True" THEN @ ELSE @ + 1]
       IN  notifier' =
               IF sent = "raised" THEN Finished(s, "raised")
               ELSE IF s.i < Len(s.messages) THEN s
               ELSE IF s.path = "single" THEN Finished(s, sent)
               ELSE Finished(s, IF s.success_count > 0 THEN "True" ELSE "False")
    /\ UNCHANGED <<engineVars, providerVars, response, loop>>

\* _force_split(text, max_length) is called on its own
ForceSplit(text, max_length) ==
    /\ notifier.pc = "IDLE"
    /\ notifier' = [NoSend EXCEPT !.pc = "DONE", !.caller = "force_split",
                                  !.text = text, !.max_length = max_length,
                                  !.messages = _force_split(text, max_length)]
    /\ UNCHANGED <<engineVars, providerVars, response, loop>>

---------------------------------------------------------------------------
(* Requests and upstream responses the providers and the route are run on *)

\* Symbol lists: the default request, lower case, a symbol only the live
\* sources know (SOL), one nobody knows (XYZ), a repeated symbol
FetchRequests ==
    {<<"BTC", "ETH">>, <<"eth", "sol">>, <<"XYZ", "BTC">>, <<"XYZ">>,
     <<"BTC", "BTC">>}

ReportRequests == {<<"BTC", "ETH">>, <<"sol">>, <<"XYZ">>}

\* settings.provider
ProviderSettings == {"mock", "Public", "real", "live"}

\* An entry of the CoinGecko response: every field, or the price alone
CoinGeckoEntries ==
    {[usd |-> 1, usd_24h_change |-> 2, usd_24h_vol |-> 30, usd_market_cap |-> 1000],
     [usd |-> 1]}

\* The bodies CoinGecko may answer a request for these symbols with: entries
\* for any of the requested coins, and perhaps for one that was not asked
PriceData(symbols) ==
    LET ids == (DOMAIN SymbolMap(symbols)) \cup {"tether"}
    IN  UNION {[P -> CoinGeckoEntries] : P \in SUBSET ids}

\* The same with every requested coin present and complete
FullPriceData(symbols) ==
    {[c \in DOMAIN SymbolMap(symbols) |->
          [usd |-> 1, usd_24h_change |-> 2, usd_24h_vol |-> 30,
           usd_market_cap |-> 1000]]}

ReportOutcomes == {"ok", "http_error", "other_error"}

NewsSnapshots == {<<>>, <<"news">>}

SpotDraws == [DOMAIN BASE_PRICES -> MockSpotDraws]
DerivDraws == [DOMAIN BASE_PRICES -> MockDerivDraws]

\* Two runs of the random generator, each giving every symbol the same draw
EvenSpotDraws ==
    <<[s \in DOMAIN BASE_PRICES |-> [change_24h |-> 0, volume_multiplier |-> 20]],
      [s \in DOMAIN BASE_PRICES |-> [change_24h |-> -8, volume_multiplier |-> 46]]>>
EvenDerivDraws ==
    <<[s \in DOMAIN BASE_PRICES |->
           [funding_rate |-> 1, oi_multiplier |-> 100, long_short_ratio |-> 1000,
            long_liquidation_24h |-> 1, short_liquidation_24h |-> 1]],
      [s \in DOMAIN BASE_PRICES |->
           [funding_rate |-> 8, oi_multiplier |-> 300, long_short_ratio |-> 1200,
            long_liquidation_24h |-> 10, short_liquidation_24h |-> 2]]>>

\* Symbol lists the public provider the factory built is asked for: an
\* unknown symbol beside a known one, a symbol the mock provider does not
\* know beside a lower-case one, an unknown symbol alone
PublicRequests == {<<"XYZ", "BTC">>, <<"eth", "sol">>, <<"XYZ">>}

\* Symbol lists a mock provider is asked for: the default request, and an
\* unknown symbol beside a lower-case one
MockRequests == {<<"BTC", "ETH">>, <<"XYZ", "btc">>}

\* The characters of the texts given to the notifier
Alphabet == {"a", " ", "\n", "&"}

Texts == UNION {[1..n -> Alphabet] : n \in 0..MaxTextLen}

\* settings: HTML, HTML wrapped in <pre>, MarkdownV2, no bot token, disabled
NotifierConfigs ==
    {[bot_token |-> "token", chat_id |-> "chat", enabled |-> TRUE,
      parse_mode |-> "HTML", wrap_pre |-> FALSE],
     [bot_token |-> "token", chat_id |-> "chat", enabled |-> TRUE,
      parse_mode |-> "HTML", wrap_pre |-> TRUE],
     [bot_token |-> "token", chat_id |-> "chat", enabled |-> TRUE,
      parse_mode |-> "MARKDOWNV2", wrap_pre |-> FALSE],
     [bot_token |-> "", chat_id |-> "chat", enabled |-> TRUE,
      parse_mode |-> "HTML", wrap_pre |-> FALSE],
     [bot_token |-> "token", chat_id |-> "chat", enabled |-> FALSE,
      parse_mode |-> "HTML", wrap_pre |-> FALSE]}

---------------------------------------------------------------------------
(* Concurrent report requests on the event loop.  A request handler
   (generate_daily_report) is a coroutine: it gives the loop back at its
   three awaits and nowhere else; SignalEngine.analyze is a plain function,
   taken here one symbol at a time. *)

MaxTasks == 2

Tasks == 1..MaxTasks

NoTask ==
    [pc |-> "IDLE", spot |-> <<>>, deriv |-> <<>>, order |-> <<>>, k |-> 0,
     engine |-> [hist |-> EmptyHistory, signals |-> <<>>, rationale |-> <<>>],
     status |-> 0, signals |-> <<>>, regime |-> [label |-> "none", rationale |-> <<>>]]

\* running is the task that holds the loop, 0 when the loop is free
NoLoop == [tasks |-> [t \in Tasks |-> NoTask], running |-> 0]

\* The handler gives the loop back at every position, analyze included
suspends_everywhere(pc) == pc \in {"SPOT", "DERIVATIVES", "NEWS", "ANALYZE"}

\* The positions at which the handler is suspended: "await
\* provider.get_spot_snapshot", "await provider.get_derivatives_snapshot"
\* and "await provider.get_news_snapshot"
suspends(pc) == pc \in {"SPOT", "DERIVATIVES", "NEWS"}

\* Task t has run up to the position of its record: the loop is free again
\* if the task is suspended there or has returned, and stays with t otherwise.
Ran(t, task) ==
    [tasks |-> [loop.tasks EXCEPT ![t] = task],
     running |-> IF suspends(task.pc) \/ task.pc = "DONE" THEN 0 ELSE t]

\* A POST /report/daily arrives and its handler runs up to the first await
TaskStart(t) ==
    /\ loop.running = 0
    /\ loop.tasks[t].pc = "IDLE"
    /\ loop' = Ran(t, [loop.tasks[t] EXCEPT !.pc = "SPOT"])
    /\ UNCHANGED <<engineVars, providerVars, response, notifier>>

\* get_spot_snapshot returned: the handler runs up to the second await
TaskSpot(t, spot_snapshot) ==
    /\ loop.running = 0
    /\ loop.tasks[t].pc = "SPOT"
    /\ loop' = Ran(t, [loop.tasks[t] EXCEPT !.pc = "DERIVATIVES", !.spot = spot_snapshot])
    /\ UNCHANGED <<engineVars, providerVars, response, notifier>>

\* get_derivatives_snapshot returned: the handler runs up to the third await
TaskDerivatives(t, derivatives_snapshot) ==
    /\ loop.running = 0
    /\ loop.tasks[t].pc = "DERIVATIVES"
    /\ loop' = Ran(t, [loop.tasks[t] EXCEPT !.pc = "NEWS", !.deriv = derivatives_snapshot])
    /\ UNCHANGED <<engineVars, providerVars, response, notifier>>

\* get_news_snapshot returned: an empty snapshot is answered with 502;
\* otherwise the handler builds its SignalEngine and enters analyze, which
\* takes the symbols of the intersection in some order.
TaskNews(t) ==
    /\ loop.running = 0
    /\ loop.tasks[t].pc = "NEWS"
    /\ LET task == loop.tasks[t]
           common == (DOMAIN task.spot) \cap (DOMAIN task.deriv)
       IN  IF DOMAIN task.spot = {} \/ DOMAIN task.deriv = {}
           THEN loop' = Ran(t, [task EXCEPT !.pc = "DONE", !.status = 502])
           ELSE \E order \in Perms(common) :
                    loop' = Ran(t, [task EXCEPT !.pc = "ANALYZE", !.order = order,
                                                !.k = 0])
    /\ UNCHANGED <<engineVars, providerVars, response, notifier>>

\* analyze of task t takes its next symbol through the eleven rules; after
\* the last symbol it determines the regime, and the handler writes the
\* report, sends it (a blocking call) and returns its response.
TaskAnalyzeSymbol(t) ==
    /\ loop.running \in {0, t}
    /\ loop.tasks[t].pc = "ANALYZE"
    /\ LET task == loop.tasks[t]
       IN  IF task.k < Len(task.order)
           THEN loop' = Ran(t, [task EXCEPT
                                    !.k = task.k + 1,
                                    !.engine = ProcessSymbol(task.engine, 1,
                                                             task.order[task.k + 1],
                                                             task.spot, task.deriv, now)])
           ELSE loop' = Ran(t, [task EXCEPT
                                    !.pc = "DONE", !.status = 200,
                                    !.signals = task.engine.signals,
                                    !.regime = _determine_regime(task.engine.signals,
                                                                 task.engine.rationale)])
    /\ UNCHANGED <<engineVars, providerVars, response, notifier>>

\* What the provider returns to the requests in flight
TaskSpotSnapshots ==
    {<<>>,
     [BTC |-> SpotData(12, 20, 1000), ETH |-> SpotData(-6, 10, 1000)],
     [BTC |-> SpotData(0, 20, 1000), ETH |-> SpotData(-12, 30, 500)]}

TaskDerivSnapshots ==
    {[BTC |-> DerivData(1, 3, 100, 1000, 0, 0), ETH |-> DerivData(10, 3, 100, 1000, 0, 0)],
     [BTC |-> DerivData(600, 150, 130, 1600, 0, 0), ETH |-> DerivData(1, 3, 100, 1000, 0, 0)]}

---------------------------------------------------------------------------
(* Specifications *)

Init ==
    /\ historical_data = EmptyHistory
    /\ calls = 0
    /\ covered = [s \in Symbols |-> 0]
    /\ last = NoCall
    /\ prev = NoCall
    /\ fetch = NoFetch
    /\ spot_cache = <<>>
    /\ derivatives_cache = <<>>
    /\ now = 0
    /\ market_provider = NoProvider
    /\ response = NoResponse
    /\ notifier = NoSend
    /\ loop = NoLoop

\* One engine, analyze called on it again and again
Next ==
    /\ calls < MaxCalls
    /\ \E spot_snapshot \in SpotSnapshots, derivatives_snapshot \in DerivSnapshots :
           Analyze(spot_snapshot, derivatives_snapshot)

Spec == Init /\ [][Next]_vars

HistNext ==
    /\ calls < MaxHistCalls
    /\ \E spot_snapshot \in HistSpotSnapshots, derivatives_snapshot \in HistDerivSnapshots :
           Analyze(spot_snapshot, derivatives_snapshot)

HistSpec == Init /\ [][HistNext]_vars

RegimeNext ==
    /\ Len(last.signals) < MaxSignals
    /\ \E level \in Levels : DetermineRegime(level)

\* The empty signal list classified, then lists grown signal by signal
RegimeInit ==
    /\ historical_data = EmptyHistory
    /\ calls = 0
    /\ covered = [s \in Symbols |-> 0]
    /\ last = [NoCall EXCEPT !.regime = _determine_regime(<<>>, <<>>)]
    /\ prev = NoCall
    /\ fetch = NoFetch
    /\ spot_cache = <<>>
    /\ derivatives_cache = <<>>
    /\ now = 0
    /\ market_provider = NoProvider
    /\ response = NoResponse
    /\ notifier = NoSend
    /\ loop = NoLoop

RegimeSpec == RegimeInit /\ [][RegimeNext]_vars

\* One PublicProvider whose get_spot_snapshot and get_derivatives_snapshot
\* are called one after the other, under every upstream outcome
FetchNext ==
    \/ /\ fetch.n < MaxFetches
       /\ \E symbols \in FetchRequests : GetSpotSnapshot(symbols)
    \/ /\ fetch.n < MaxFetches
       /\ \E symbols \in FetchRequests : GetDerivativesSnapshot(symbols)
    \/ NoValidSymbols
    \/ \E outcome \in Outcomes \ {"ok"} : SpotResponse(outcome, <<>>)
    \/ \E price_data \in PriceData(fetch.symbols) : SpotResponse("ok", price_data)
    \/ \E outcome \in Outcomes : DerivativesResponse(outcome)
    \/ \E draw \in SpotDraws : FallbackSpot(draw)
    \/ \E draw \in DerivDraws : FallbackDerivatives(draw)
    \/ /\ now + CacheSeconds <= MaxNow
       /\ Tick(CacheSeconds)

FetchSpec == Init /\ [][FetchNext]_vars

\* POST /report/daily, request after request, each with the provider the
\* factory builds for it
ReportNext ==
    \/ \E provider \in ProviderSettings, symbols \in ReportRequests :
           ReportRequest(provider, symbols)
    \/ ReportSpotFetched
    \/ \E news_snapshot \in NewsSnapshots, send_telegram \in BOOLEAN,
          is_configured \in BOOLEAN :
           ReportFinish(news_snapshot, send_telegram, is_configured)
    \/ NoValidSymbols
    \/ \E outcome \in ReportOutcomes \ {"ok"} : SpotResponse(outcome, <<>>)
    \/ \E price_data \in FullPriceData(fetch.symbols) : SpotResponse("ok", price_data)
    \/ \E outcome \in ReportOutcomes : DerivativesResponse(outcome)
    \/ \E draw \in SpotDraws : FallbackSpot(draw)
    \/ \E draw \in DerivDraws : FallbackDerivatives(draw)
    \/ \E spot_draw \in SpotDraws, deriv_draw \in DerivDraws :
           MockResponse(spot_draw, deriv_draw)

ReportSpec == Init /\ [][ReportNext]_vars

\* One process: the factory builds its provider from settings.provider, and
\* the snapshots are fetched from it; on a mock provider time passes between
\* the calls, 59 or 60 seconds at a time.  The mock provider's generator
\* gives the same draw every time here: its records are told apart by the
\* time they were generated at.
ProviderNext ==
    \/ \E setting \in ProviderSettings : GetMarketProvider(setting)
    \/ /\ market_provider.class = "public"
       /\ fetch.n < MaxFetches
       /\ \E symbols \in PublicRequests : GetSpotSnapshot(symbols)
    \/ /\ market_provider.class = "public"
       /\ fetch.n < MaxFetches
       /\ \E symbols \in PublicRequests : GetDerivativesSnapshot(symbols)
    \/ NoValidSymbols
    \/ \E outcome \in Outcomes \ {"ok"} : SpotResponse(outcome, <<>>)
    \/ \E price_data \in PriceData(fetch.symbols) : SpotResponse("ok", price_data)
    \/ \E outcome \in Outcomes : DerivativesResponse(outcome)
    \/ \E k \in 1..2 : FallbackSpot(EvenSpotDraws[k])
    \/ \E k \in 1..2 : FallbackDerivatives(EvenDerivDraws[k])
    \/ /\ fetch.n < MaxMockCalls
       /\ \E kind \in {"spot", "derivatives"}, symbols \in MockRequests :
              MockGetSnapshot(kind, symbols)
    \/ MockResponse(EvenSpotDraws[1], EvenDerivDraws[1])
    \/ /\ market_provider.class = "mock"
       /\ \E seconds \in {CacheSeconds - 1, CacheSeconds} :
              /\ now + seconds <= MaxMockNow
              /\ Tick(seconds)

ProviderSpec == Init /\ [][ProviderNext]_vars

\* The notifier, which keeps nothing from one call to the next, on one call:
\* send called directly or by the route, the API answering message after
\* message, or _force_split called with a limit of its own
NotifyNext ==
    \/ /\ notifier.pc = "IDLE"
       /\ \E cfg \in NotifierConfigs, text \in Texts : Send(cfg, text)
    \/ /\ notifier.pc = "IDLE"
       /\ \E send_telegram \in BOOLEAN, cfg \in NotifierConfigs, text \in Texts :
              RouteSend(send_telegram, cfg, text)
    \/ \E outcome \in ApiOutcomes : ApiResponse(outcome)
    \/ /\ notifier.pc = "IDLE"
       /\ \E text \in Texts, max_length \in 1..MAX_MESSAGE_LENGTH :
              ForceSplit(text, max_length)

NotifySpec == Init /\ [][NotifyNext]_vars

---------------------------------------------------------------------------
(* Properties of the signal engine *)

CountLevel(signals, level) ==
    Cardinality({i \in 1..Len(signals) : signals[i].level = level})

HasSignal(signals, id) == \E i \in 1..Len(signals) : signals[i].id = id

HasSignalAt(signals, id, level) ==
    \E i \in 1..Len(signals) : signals[i].id = id /\ signals[i].level = level

SignalSet(signals) == {signals[i] : i \in 1..Len(signals)}

\* The symbols a call processed: those in both of its snapshots
Analyzed(call) == (DOMAIN call.spot) \cap (DOMAIN call.deriv)

\* The open interest rule 2 reads from a derivatives record
OiUsd(deriv_data) ==
    Get(deriv_data, "open_interest_usd", Get(deriv_data, "open_interest", 0))

Min(a, b) == IF a <= b THEN a ELSE b

\* C1: for every signal list handed to regime determination the label is
\* risk_off iff the list has a critical signal or at least three warn
\* signals, neutral iff it is empty or has no critical and one or two warn
\* signals, and risk_on iff it is non-empty with no critical and no warn
\* signal; only the counts matter.
C1_RegimeByCounts ==
    LET critical_count == CountLevel(last.signals, "critical")
        warn_count == CountLevel(last.signals, "warn")
        label == last.regime.label
    IN  /\ label = "risk_off" <=> (critical_count >= 1 \/ warn_count >= 3)
        /\ label = "neutral" <=> \/ last.signals = <<>>
                                 \/ critical_count = 0 /\ warn_count \in {1, 2}
        /\ label = "risk_on" <=> /\ last.signals # <<>>
                                 /\ critical_count = 0
                                 /\ warn_count = 0

C1_Witness ==
    /\ CountLevel(last.signals, "critical") = 0
    /\ CountLevel(last.signals, "warn") = 3
    /\ CountLevel(last.signals, "info") = 1
    /\ last.regime.label = "risk_off"

\* C2: after every analyze call that processed symbol S, the newest history
\* record of S holds that call's open_interest_usd and volume_ratio (and, for
\* BTC in a snapshot of several symbols, its btc_dominance), whether or not
\* a signal fired.
C2_NewestRecordIsCurrent ==
    \A s \in Symbols :
        (calls >= 1 /\ s \in Analyzed(last)) =>
            LET hist == historical_data[s] IN
            /\ Len(hist) > 0
            /\ Get(Last(hist), "open_interest_usd", -1) = OiUsd(last.deriv[s])
            /\ Get(Last(hist), "volume_ratio", -1) = VolumeRatio(last.spot[s])
            /\ (s = "BTC" /\ Cardinality(DOMAIN last.spot) > 1) =>
                   Get(Last(hist), "btc_dominance", <<>>)
                       = <<Get(last.spot["BTC"], "market_cap", 0),
                           TotalMcap(last.spot, DOMAIN last.spot)>>

\* C3: on a fresh engine, when a symbol is processed by the first two
\* analyze calls with a positive open interest in the first and one at least
\* 30% higher in the second, the second result has the symbol's OI-surge
\* signal at level critical and the first result has no OI-surge signal.
C3_SurgeOnSecondCall ==
    \A s \in Symbols :
        (/\ calls = 2
         /\ s \in Analyzed(prev) /\ s \in Analyzed(last)
         /\ OiUsd(prev.deriv[s]) > 0
         /\ OiUsd(last.deriv[s]) * 100 >= 130 * OiUsd(prev.deriv[s]))
        => /\ HasSignalAt(last.signals, s \o "_oi_surge", "critical")
           /\ ~HasSignalAt(last.signals, s \o "_oi_surge", "warn")
           /\ ~HasSignal(prev.signals, s \o "_oi_surge")

C3_Witness ==
    /\ calls = 2
    /\ "BTC" \in Analyzed(prev) /\ "BTC" \in Analyzed(last)
    /\ OiUsd(prev.deriv["BTC"]) = 100
    /\ OiUsd(last.deriv["BTC"]) = 130
    /\ HasSignalAt(last.signals, "BTC_oi_surge", "critical")

\* C4: after n analyze calls that processed symbol S on a fresh engine the
\* history of S holds min(n, 10) records.
C4_OneSlotPerCall ==
    \A s \in Symbols : Len(historical_data[s]) = Min(covered[s], HistoryLimit)

\* C5: the history of every symbol holds at most 10 records, and a call in
\* which rule 2 stores a record (the history is empty or its newest open
\* interest is not positive) leaves the previous records in order, without
\* the oldest one when they were already 10, followed by the new record;
\* any other call changes at most the newest record.
C5_BoundedOldestEvicted ==
    [][\A s \in Symbols :
          LET hist == historical_data[s]
              after == historical_data'[s]
              stores == /\ s \in Analyzed(last')
                        /\ \/ Len(hist) = 0
                           \/ Get(Last(hist), "open_interest_usd",
                                  OiUsd(last'.deriv[s])) <= 0
          IN  /\ Len(after) <= HistoryLimit
              /\ IF stores
                 THEN /\ Len(after) = Min(Len(hist) + 1, HistoryLimit)
                      /\ SubSeq(after, 1, Len(after) - 1)
                             = LastN(hist, HistoryLimit - 1)
                      /\ Last(after).timestamp = calls'
                      /\ Last(after).open_interest_usd = OiUsd(last'.deriv[s])
                 ELSE /\ Len(after) = Len(hist)
                      /\ SubSeq(after, 1, Len(after) - 1)
                             = SubSeq(hist, 1, Len(hist) - 1)
      ]_vars

C5_Witness ==
    /\ calls = 11
    /\ covered["BTC"] = 11
    /\ Len(historical_data["BTC"]) = 10
    /\ historical_data["BTC"][1].timestamp = 2
    /\ historical_data["BTC"][10].timestamp = 11

HistoryRuleIds(s) ==
    {s \o "_oi_surge", s \o "_volume_surge", s \o "_panic_selling_risk",
     "btc_dominance_change"}

\* C6: the first analyze call of a fresh engine emits no OI-surge, no
\* volume-surge, no panic-selling and no BTC-dominance signal, and its set of
\* signals is the same in whatever order the symbols are processed.
C6_ColdEngineQuiet ==
    calls = 1 =>
        /\ \A i \in 1..Len(last.signals) : \A s \in Symbols :
               last.signals[i].id \notin HistoryRuleIds(s)
        /\ \A order \in Perms(Analyzed(last)) :
               SignalSet(analyze(EmptyHistory, last.spot, last.deriv, order, 1).signals)
                   = SignalSet(last.signals)

\* The first call sees a 6% drop on three times the usual volume for BTC and
\* a snapshot of two symbols, and emits signals for ETH.
C6_Witness ==
    /\ calls = 1
    /\ Analyzed(last) = {"BTC", "ETH"}
    /\ last.spot["BTC"].change_24h = -6
    /\ last.spot["ETH"].market_cap = 500
    /\ HasSignalAt(last.signals, "ETH_extreme_funding", "critical")
    /\ last.order = <<"ETH", "BTC">>

---------------------------------------------------------------------------
(* Properties of the live provider and of the report route *)

\* A fetch of the PublicProvider that has returned
Returned(f) == f.provider = "public" /\ f.pc = "DONE"

AnyCallFailed(calls_made) ==
    \E k \in 1..Len(calls_made) : calls_made[k].outcome # "ok"

EveryCallFailed(calls_made) ==
    /\ calls_made # <<>>
    /\ \A k \in 1..Len(calls_made) : calls_made[k].outcome # "ok"

\* The fetch returned what one call of the fallback provider, made with the
\* requested symbols, produced
FromFallback(f) ==
    /\ Len(f.fallback_calls) = 1
    /\ f.fallback_calls[1].symbols = f.symbols
    /\ f.returned = f.fallback_calls[1].result

\* The outcome of the call the fetch made for symbols[k] to an endpoint,
\* "none" when it made no such call
OutcomeOf(f, k, endpoint) ==
    IF \E c \in 1..Len(f.live_calls) :
           f.live_calls[c].i = k /\ f.live_calls[c].endpoint = endpoint
    THEN LET c == CHOOSE c \in 1..Len(f.live_calls) :
                      f.live_calls[c].i = k /\ f.live_calls[c].endpoint = endpoint
         IN  f.live_calls[c].outcome
    ELSE "none"

\* symbols[k] got a live derivatives record: its four required calls
\* succeeded and forceOrders did not fail with a type error or worse
Served(f, k) ==
    /\ \A e \in 1..4 : OutcomeOf(f, k, Endpoints[e]) = "ok"
    /\ OutcomeOf(f, k, "forceOrders")
           \in {"ok", "http_error", "request_error", "value_error"}

FetchStep ==
    \/ NoValidSymbols
    \/ \E outcome \in Outcomes : SpotResponse(outcome, <<>>)
    \/ \E outcome \in Outcomes : DerivativesResponse(outcome)
    \/ \E draw \in SpotDraws : FallbackSpot(draw)
    \/ \E draw \in DerivDraws : FallbackDerivatives(draw)

\* C8: every spot or derivatives fetch of the PublicProvider goes
\* REQUESTED -> DONE or REQUESTED -> FALLBACK_REQUESTED -> DONE and no other
\* way: it is never in another state, it can always take a step until it is
\* DONE and makes at most five upstream calls per symbol, no upstream call
\* is made twice, the fallback is called at most once and exactly when the
\* fetch went through FALLBACK_REQUESTED, and what it returns is a mapping
\* from requested symbols to records.
C8_FetchStateMachine ==
    fetch.provider = "public" =>
        /\ fetch.trace \in {<<"REQUESTED">>,
                            <<"REQUESTED", "DONE">>,
                            <<"REQUESTED", "FALLBACK_REQUESTED">>,
                            <<"REQUESTED", "FALLBACK_REQUESTED", "DONE">>}
        /\ fetch.pc = Last(fetch.trace)
        /\ fetch.pc # "DONE" => ENABLED FetchStep
        /\ Len(fetch.live_calls) <= Len(Endpoints) * Len(fetch.symbols)
        /\ \A c, d \in 1..Len(fetch.live_calls) :
               (/\ fetch.live_calls[c].i = fetch.live_calls[d].i
                /\ fetch.live_calls[c].endpoint = fetch.live_calls[d].endpoint)
               => c = d
        /\ Len(fetch.fallback_calls) <= 1
        /\ fetch.pc = "DONE" =>
               /\ Len(fetch.fallback_calls) = 1
                      <=> fetch.trace = <<"REQUESTED", "FALLBACK_REQUESTED", "DONE">>
               /\ DOMAIN fetch.returned
                      \subseteq {upper(fetch.symbols[k]) : k \in 1..Len(fetch.symbols)}
               /\ \A s \in DOMAIN fetch.returned :
                      "timestamp" \in DOMAIN fetch.returned[s]

\* A derivatives fetch that made upstream calls, went to the fallback and
\* returned its snapshot
C8_Witness ==
    /\ Returned(fetch)
    /\ fetch.kind = "derivatives"
    /\ fetch.trace = <<"REQUESTED", "FALLBACK_REQUESTED", "DONE">>
    /\ Len(fetch.live_calls) = 7
    /\ Len(fetch.fallback_calls) = 1
    /\ DOMAIN fetch.returned = {"BTC", "ETH"}

\* The records the fallback provider can produce for a symbol
MockDerivRecords(symbol_upper, utcnow) ==
    {MockDerivData(symbol_upper, draw, utcnow) : draw \in MockDerivDraws}

\* C9: when every upstream call of get_derivatives_snapshot(["BTC", "ETH"])
\* failed, the fetch returned, without an exception, a non-empty mapping
\* that is the fallback provider's snapshot, every entry of which is a
\* record of the fallback provider.
C9_AllDerivativesCallsFail ==
    (/\ fetch.provider = "public"
     /\ fetch.kind = "derivatives"
     /\ fetch.symbols = <<"BTC", "ETH">>
     /\ EveryCallFailed(fetch.live_calls)
     /\ fetch.pc # "REQUESTED")
    => /\ fetch.pc \in {"FALLBACK_REQUESTED", "DONE"}
       /\ fetch.pc = "FALLBACK_REQUESTED" => ENABLED FetchStep
       /\ fetch.pc = "DONE" =>
              /\ DOMAIN fetch.returned = {"BTC", "ETH"}
              /\ FromFallback(fetch)
              /\ \A s \in DOMAIN fetch.returned :
                     fetch.returned[s]
                         \in MockDerivRecords(s, fetch.returned[s].timestamp)

\* Both symbols were skipped after a failed premiumIndex call
C9_Witness ==
    /\ Returned(fetch)
    /\ fetch.kind = "derivatives"
    /\ fetch.symbols = <<"BTC", "ETH">>
    /\ Len(fetch.live_calls) = 2
    /\ EveryCallFailed(fetch.live_calls)
    /\ DOMAIN fetch.returned = {"BTC", "ETH"}

\* The symbols both live sources know
LiveSupported(symbol) ==
    /\ upper(symbol) \in DOMAIN SYMBOL_TO_COINGECKO_ID
    /\ upper(symbol) \in DOMAIN SYMBOL_TO_BINANCE_SYMBOL

\* C10: with the PublicProvider selected and every upstream call failing, a
\* daily report request for symbols the live provider supports is answered
\* with a report: status 200 with markdown, signals and a regime.
C10_ReportUnderOutage ==
    (/\ response.pc = "DONE"
     /\ response.provider = "public"
     /\ response.symbols # <<>>
     /\ \A k \in 1..Len(response.symbols) : LiveSupported(response.symbols[k])
     /\ EveryCallFailed(response.upstream))
    => /\ response.status = 200
       /\ response.markdown
       /\ response.regime.label \in {"risk_on", "neutral", "risk_off"}

---------------------------------------------------------------------------
(* The engine on funding rates around its thresholds and on loud markets *)

\* A 12% drop on heavy volume
LoudSpotData == SpotData(-12, 60, 1000)

\* Extreme funding on a long-heavy book with liquidations of 15% of the
\* open interest
LoudDerivData == DerivData(600, 600, 130, 1600, 10, 10)

\* funding_rate_24h on both sides of 0.01 and 0.05 with a quiet
\* funding_rate, and a funding_rate at or just under 0.05 beside a
\* funding_rate_24h under, at or over its thresholds
FundingDerivData ==
    {DerivData(0, f24, 100, 1000, 0, 0) :
         f24 \in {-500, -100, -99, 99, 100, 499}}
        \cup {DerivData(500, 99, 100, 1000, 0, 0),
              DerivData(500, 500, 100, 1000, 0, 0),
              DerivData(-500, -500, 100, 1000, 0, 0),
              DerivData(499, 500, 100, 1000, 0, 0)}

RuleSpotSnapshots ==
    {[BTC |-> spot_data, ETH |-> LoudSpotData] :
         spot_data \in {SpotData(0, 20, 1000), LoudSpotData}}

RuleDerivSnapshots ==
    {[BTC |-> deriv_data, ETH |-> LoudDerivData] :
         deriv_data \in FundingDerivData \cup {LoudDerivData}}

RuleNext ==
    /\ calls < MaxCalls
    /\ \E spot_snapshot \in RuleSpotSnapshots, derivatives_snapshot \in RuleDerivSnapshots :
           Analyze(spot_snapshot, derivatives_snapshot)

RuleSpec == Init /\ [][RuleNext]_vars

---------------------------------------------------------------------------
(* Further properties of the signal engine *)

\* The id suffixes of the signals of rules 1 to 10, in rule order
RuleIds ==
    <<"funding_overheated", "oi_surge", "volatility_spike", "volume_surge",
      "long_short_imbalance", "liquidation_risk_alert", "panic_selling_risk",
      "extreme_funding", "high_liquidation_risk", "momentum_divergence">>

\* The ids of the signals the rules can emit for a symbol
SignalIdsOf(symbol) ==
    {symbol \o "_" \o RuleIds[i] : i \in 1..Len(RuleIds)}
        \cup (IF symbol = "BTC" THEN {"btc_dominance_change"} ELSE {})

\* The rationale entries the rules can append for a symbol
RationaleTextsOf(symbol) ==
    {RationaleText(i, symbol) : i \in 1..Len(RuleIds)}
        \cup (IF symbol = "BTC" THEN {RationaleText(11, "BTC")} ELSE {})

\* C11: after every analyze call, for a symbol that is in only one of the
\* two snapshots the result has no signal of that symbol and no rationale
\* entry for it.
C11_OneSidedSymbolSkipped ==
    \A s \in Symbols :
        (/\ calls >= 1
         /\ s \in (DOMAIN last.spot) \cup (DOMAIN last.deriv)
         /\ s \notin Analyzed(last))
        => /\ \A i \in 1..Len(last.signals) : last.signals[i].id \notin SignalIdsOf(s)
           /\ \A i \in 1..Len(last.regime.rationale) :
                  last.regime.rationale[i] \notin RationaleTextsOf(s)

\* ETH, with an extreme funding rate, is in the derivatives snapshot only,
\* and the call emits a signal for BTC
C11_Witness ==
    /\ calls = 2
    /\ "ETH" \in DOMAIN last.deriv
    /\ "ETH" \notin DOMAIN last.spot
    /\ last.deriv["ETH"].funding_rate_24h = 150
    /\ HasSignal(last.signals, "BTC_oi_surge")
    /\ Len(last.regime.rationale) = Len(last.signals)

\* The funding rates the last call saw for a symbol
FundingRate24h(s) == Get(last.deriv[s], "funding_rate_24h", 0)
FundingRate(s) == Get(last.deriv[s], "funding_rate", 0)

\* The number of signals of the last result with this id
CountId(signals, id) == Cardinality({i \in 1..Len(signals) : signals[i].id = id})

\* C12: after every analyze call, for every symbol in both snapshots, the
\* result has a funding-overheated signal of the symbol iff
\* abs(funding_rate_24h) >= 0.01, it has one such signal at most, and that
\* signal is critical iff abs(funding_rate_24h) >= 0.05 and warn otherwise,
\* whatever the single-period funding_rate is.
C12_FundingOverheated ==
    \A s \in Symbols :
        (calls >= 1 /\ s \in Analyzed(last)) =>
            LET id == s \o "_funding_overheated" IN
            /\ HasSignal(last.signals, id) <=> Abs(FundingRate24h(s)) >= 100
            /\ CountId(last.signals, id) <= 1
            /\ HasSignalAt(last.signals, id, "critical") <=> Abs(FundingRate24h(s)) >= 500
            /\ HasSignalAt(last.signals, id, "warn")
                   <=> (Abs(FundingRate24h(s)) >= 100 /\ Abs(FundingRate24h(s)) < 500)

\* A funding_rate of 0.05 beside a funding_rate_24h of 0.0099: rule 8 fires
\* and rule 1 does not
C12_Witness ==
    /\ calls = 2
    /\ FundingRate("BTC") = 500
    /\ FundingRate24h("BTC") = 99
    /\ ~HasSignal(last.signals, "BTC_funding_overheated")
    /\ HasSignal(last.signals, "BTC_extreme_funding")
    /\ Get(prev.deriv["BTC"], "funding_rate_24h", 0) = -100
    /\ HasSignalAt(prev.signals, "BTC_funding_overheated", "warn")

\* C13: after every analyze call, for every symbol in both snapshots with
\* abs(funding_rate) >= 0.05 and abs(funding_rate_24h) >= 0.05, the result
\* has the symbol's extreme-funding signal and its funding-overheated
\* signal, both critical, and the regime label is risk_off.
C13_ExtremeFundingBothRules ==
    \A s \in Symbols :
        (/\ calls >= 1
         /\ s \in Analyzed(last)
         /\ Abs(FundingRate(s)) >= 500
         /\ Abs(FundingRate24h(s)) >= 500)
        => /\ HasSignalAt(last.signals, s \o "_extreme_funding", "critical")
           /\ HasSignalAt(last.signals, s \o "_funding_overheated", "critical")
           /\ last.regime.label = "risk_off"

\* Both rates of BTC are -0.05 on an engine that has a history
C13_Witness ==
    /\ calls = 2
    /\ FundingRate("BTC") = -500
    /\ FundingRate24h("BTC") = -500
    /\ HasSignalAt(last.signals, "BTC_extreme_funding", "critical")
    /\ HasSignalAt(last.signals, "BTC_funding_overheated", "critical")
    /\ Len(historical_data["BTC"]) > 0

\* C14: after every analyze call that emitted no signal, a call with an
\* empty mapping among them, the result has the empty signal list and the
\* regime neutral with the one rationale entry "No significant signals
\* detected"; and a call on an empty mapping emits no signal.
C14_NoSignalNeutral ==
    calls >= 1 =>
        /\ (DOMAIN last.spot = {} \/ DOMAIN last.deriv = {}) => last.signals = <<>>
        /\ last.signals = <<>> =>
               last.regime = [label |-> "neutral",
                              rationale |-> <<"No significant signals detected">>]

\* A call on an empty derivatives mapping after a quiet call on BTC
C14_Witness ==
    /\ calls >= 2
    /\ DOMAIN last.deriv = {}
    /\ DOMAIN last.spot # {}
    /\ last.signals = <<>>
    /\ last.regime.label = "neutral"
    /\ Analyzed(prev) = {"BTC"}
    /\ prev.signals = <<>>
    /\ prev.regime.rationale = <<"No significant signals detected">>

\* The rationale entry analyze appends with the signal of this id
RationaleOf(id) ==
    IF id = "btc_dominance_change" THEN RationaleText(11, "BTC")
    ELSE LET at == CHOOSE p \in Symbols \X (1..Len(RuleIds)) : id = p[1] \o "_" \o RuleIds[p[2]]
         IN  RationaleText(at[2], at[1])

\* C15: after every analyze call that emitted a signal, the rationale has
\* min(10, number of signals) entries and its i-th entry is the entry that
\* analyze appends with the i-th signal of the result.
C15_RationaleFirstTen ==
    (calls >= 1 /\ last.signals # <<>>) =>
        /\ Len(last.regime.rationale) = Min(RationaleLimit, Len(last.signals))
        /\ \A i \in 1..Len(last.regime.rationale) :
               last.regime.rationale[i] = RationaleOf(last.signals[i].id)

\* Twelve signals, BTC processed first: the tenth entry is the one of ETH's
\* fourth signal and ETH's last two signals have no entry
C15_Witness ==
    /\ calls >= 1
    /\ Len(last.signals) = 12
    /\ Len(last.regime.rationale) = RationaleLimit
    /\ last.order = <<"BTC", "ETH">>
    /\ last.regime.rationale[1] = "BTC: Funding rate elevated"
    /\ last.signals[10].id = "ETH_extreme_funding"
    /\ last.regime.rationale[10] = "ETH: Extreme funding rate"
    /\ last.signals[12].id = "ETH_momentum_divergence"
    /\ \A i \in 1..RationaleLimit : last.regime.rationale[i] # "ETH: Momentum divergence"

---------------------------------------------------------------------------
(* Properties of the provider factory and of the mock provider *)

\* The upper-cased symbols of a request
Requested(symbols) == {upper(symbols[k]) : k \in 1..Len(symbols)}

\* C16: every settings.provider value yields a provider; a value that is not
\* mock, public or real (in any case) yields the mock provider; and the mock
\* provider reports is_available() = true and answers every spot and
\* derivatives call that asks for BTC with a non-empty snapshot that has a
\* non-empty record for BTC.
C16_UnknownKeyIsMock ==
    /\ market_provider = NoProvider =>
           \A setting \in ProviderSettings : ENABLED GetMarketProvider(setting)
    /\ market_provider.setting # "none" =>
           /\ market_provider.class \in {"mock", "public"}
           /\ lower(market_provider.setting) \notin {"mock", "public", "real"}
                  => market_provider.class = "mock"
           /\ is_available(market_provider.class)
           /\ \A i \in 1..Len(market_provider.calls) :
                  LET call == market_provider.calls[i] IN
                  "BTC" \in Requested(call.symbols) =>
                      /\ "BTC" \in DOMAIN call.returned
                      /\ DOMAIN call.returned["BTC"] # {}

\* settings.provider is "live": the mock provider has answered a spot and a
\* derivatives call for BTC
C16_Witness ==
    /\ market_provider.setting = "live"
    /\ market_provider.class = "mock"
    /\ Len(market_provider.calls) >= 2
    /\ market_provider.calls[1].kind = "spot"
    /\ market_provider.calls[2].kind = "derivatives"
    /\ market_provider.calls[1].returned["BTC"].price = BASE_PRICES["BTC"]
    /\ market_provider.calls[2].returned["BTC"].open_interest_usd > 0

\* C17: every get_spot_snapshot and get_derivatives_snapshot call, on either
\* provider and with symbols no source knows in the list, ends by returning a
\* mapping, and the keys of the mapping are among the upper-cased requested
\* symbols.
C17_KeysAreRequested ==
    /\ fetch.pc \in {"IDLE", "REQUESTED", "FALLBACK_REQUESTED", "DONE"}
    /\ fetch.pc = "DONE" => DOMAIN fetch.returned \subseteq Requested(fetch.symbols)
    /\ \A i \in 1..Len(market_provider.calls) :
           DOMAIN market_provider.calls[i].returned
               \subseteq Requested(market_provider.calls[i].symbols)

\* The public provider asked for XYZ and BTC returns BTC alone from a
\* CoinGecko response that also has an entry for a coin that was not asked
C17_Witness ==
    /\ fetch.provider = "public"
    /\ fetch.kind = "spot"
    /\ fetch.symbols = <<"XYZ", "BTC">>
    /\ fetch.pc = "DONE"
    /\ fetch.fallback_calls = <<>>
    /\ DOMAIN fetch.returned = {"BTC"}

\* The calls of the log that returned a record of this kind for the symbol
MockCallsOf(kind, s) ==
    {i \in 1..Len(market_provider.calls) :
         /\ market_provider.calls[i].kind = kind
         /\ s \in DOMAIN market_provider.calls[i].returned}

\* The greatest element of a non-empty set of numbers
Max(S) == CHOOSE x \in S : \A y \in S : y <= x

\* C18: on one mock provider, a call returns for a known symbol the record
\* the previous call of the same kind returned for it when that record was
\* generated less than 60 s before, and a record generated at the time of
\* the call otherwise (also when the record is exactly 60 s old, and on the
\* first call); calls of the other kind in between change nothing.
C18_MockCacheWindow ==
    \A kind \in {"spot", "derivatives"}, s \in DOMAIN BASE_PRICES :
        \A j \in MockCallsOf(kind, s) :
            LET earlier == {i \in MockCallsOf(kind, s) : i < j}
                call == market_provider.calls[j]
            IN  IF earlier = {}
                THEN call.returned[s].timestamp = call.time
                ELSE LET before == market_provider.calls[Max(earlier)].returned[s]
                     IN  IF call.time - before.timestamp < CacheSeconds
                         THEN call.returned[s] = before
                         ELSE call.returned[s].timestamp = call.time

\* Spot calls for BTC at 0 s, 60 s and 119 s: the second is answered with a
\* record generated at 60 s, the third with that record again
C18_Witness ==
    /\ Len(market_provider.calls) = 3
    /\ \A i \in 1..3 : market_provider.calls[i].kind = "spot"
    /\ market_provider.calls[1].time = 0
    /\ market_provider.calls[2].time = CacheSeconds
    /\ market_provider.calls[3].time = 2 * CacheSeconds - 1
    /\ market_provider.calls[1].returned["BTC"].timestamp = 0
    /\ market_provider.calls[2].returned["BTC"].timestamp = CacheSeconds
    /\ market_provider.calls[3].returned["BTC"] = market_provider.calls[2].returned["BTC"]

---------------------------------------------------------------------------
(* Properties of the Telegram notifier *)

\* send was called, directly or by the route, and has ended
SendEnded ==
    /\ notifier.pc = "DONE"
    /\ notifier.path \in {"unconfigured", "single", "split"}
    /\ notifier.caller = "direct" \/ notifier_is_configured(notifier.cfg)

\* send never raises, and the route answers 200 whatever Telegram did
NeverRaisesNeverFatal ==
    /\ notifier.result # "raised"
    /\ SendEnded => notifier.result \in {"True", "False"}
    /\ (notifier.pc = "DONE" /\ notifier.caller = "route") => notifier.status = 200

C20_ChunksWithinLimit ==
    /\ notifier.caller = "force_split" =>
           /\ notifier.max_length >= 1
           /\ \A k \in 1..Len(notifier.messages) :
                  Len(notifier.messages[k]) <= notifier.max_length
    /\ notifier.caller \in {"direct", "route"} =>
           \A k \in 1..Len(notifier.messages) :
               Len(notifier.messages[k]) <= MAX_MESSAGE_LENGTH

\* send split a text wrapped in <pre>, whose one word is longer than a
\* message, into more than three messages, one of them of the full length
C20_Witness ==
    /\ notifier.pc = "DONE"
    /\ notifier.caller = "direct"
    /\ notifier.path = "split"
    /\ notifier.cfg.wrap_pre
    /\ Len(notifier.messages) > 3
    /\ \E k \in 1..Len(notifier.messages) :
           Len(notifier.messages[k]) = MAX_MESSAGE_LENGTH

---------------------------------------------------------------------------
(* Properties of the rules that share a symbol's history *)

\* The engine history when rule k of the symbol's loop body starts, the body
\* having started on history H: rules 1 to k - 1 have run.
RECURSIVE BeforeRule(_, _, _, _, _, _)
BeforeRule(k, H, symbol, spot_snapshot, derivatives_snapshot, utcnow) ==
    IF k <= 1 THEN H
    ELSE Rule(k - 1,
              BeforeRule(k - 1, H, symbol, spot_snapshot, derivatives_snapshot, utcnow),
              symbol, spot_snapshot, derivatives_snapshot, utcnow).hist

\* The engine history when the loop body of order[n] starts
BeforeSymbol(H, order, n, spot_snapshot, derivatives_snapshot, utcnow) ==
    ProcessSymbols([hist |-> H, signals |-> <<>>, rationale |-> <<>>],
                   SubSeq(order, 1, n - 1),
                   spot_snapshot, derivatives_snapshot, utcnow).hist

\* The history rule k of order[n] works on in the call that is being made
\* (the call's inputs are in last', the history before the call is H)
RuleHistory(k, H, call, n, utcnow) ==
    BeforeRule(k, BeforeSymbol(H, call.order, n, call.spot, call.deriv, utcnow),
               call.order[n], call.spot, call.deriv, utcnow)[call.order[n]]

\* prev_oi of rule 2: hist[-1].get("open_interest_usd", oi_usd)
PrevOiRule2(hist, deriv_data) ==
    Get(Last(hist), "open_interest_usd", OiUsd(deriv_data))

\* prev_oi of rule 6: hist[-1].get("open_interest_usd", oi)
PrevOiRule6(hist, deriv_data) ==
    Get(Last(hist), "open_interest_usd", Get(deriv_data, "open_interest_usd", 0))

\* C21: in every analyze call and for every symbol it processes on a
\* history that is not empty, the previous open interest read by rule 6
\* (price+OI surge) is the value rule 2 (OI surge) read earlier in the same
\* call: no write of rule 2 comes between the two reads.
C21_SameBaseline ==
    [][\A n \in 1..Len(last'.order) :
          LET hist2 == RuleHistory(2, historical_data, last', n, calls')
              hist6 == RuleHistory(6, historical_data, last', n, calls')
              deriv_data == last'.deriv[last'.order[n]]
          IN  Len(hist2) > 0 =>
                  PrevOiRule6(hist6, deriv_data) = PrevOiRule2(hist2, deriv_data)
      ]_vars

\* The volume ratios that earlier calls left in the last five records
StoredRatios(hist) ==
    LET stored == SelectSeq(LastN(hist, 5), LAMBDA h : "volume_ratio" \in DOMAIN h)
    IN  [i \in 1..Len(stored) |-> stored[i].volume_ratio]

\* C23: in every analyze call and for every symbol it processes, the volume
\* surge signal (rule 4) is emitted, at level warn, exactly when the z-score
\* of the call's volume ratio against the ratios stored by previous calls
\* in the last five records is at least 2.0; the call's own ratio is not in
\* the sample.
C23_VolumeSurgeZScore ==
    [][\A n \in 1..Len(last'.order) :
          LET symbol == last'.order[n]
              sample == StoredRatios(historical_data[symbol])
              fires == /\ Len(sample) > 0
                       /\ ZScoreAtLeast(VolumeRatio(last'.spot[symbol]), sample,
                                        THRESHOLDS.volume_surge_zscore)
          IN  /\ HasSignalAt(last'.signals, symbol \o "_volume_surge", "warn") <=> fires
              /\ HasSignal(last'.signals, symbol \o "_volume_surge") <=> fires
      ]_vars

\* BTC's share of the summed market caps of a spot snapshot, as <<part, total>>
BtcDominance(spot_snapshot) ==
    <<Get(spot_snapshot["BTC"], "market_cap", 0),
      TotalMcap(spot_snapshot, DOMAIN spot_snapshot)>>

\* C24: when the first two analyze calls of a fresh engine both process BTC
\* on a spot snapshot of more than one symbol, the second call emits
\* btc_dominance_change (level info) iff BTC's share of the summed market
\* caps differs from the share of the first call by at least 0.02, and the
\* first call does not emit it.
C24_DominanceChangeOnSecondCall ==
    (/\ calls = 2
     /\ "BTC" \in Analyzed(prev) /\ "BTC" \in Analyzed(last)
     /\ Cardinality(DOMAIN prev.spot) > 1
     /\ Cardinality(DOMAIN last.spot) > 1)
    => /\ HasSignalAt(last.signals, "btc_dominance_change", "info")
              <=> DominanceChanged(BtcDominance(last.spot), BtcDominance(prev.spot))
       /\ ~HasSignal(prev.signals, "btc_dominance_change")

---------------------------------------------------------------------------
(* The engine on open interest and volume around the surge thresholds *)

\* BTC alone: a 6% rise on the usual volume, or a 6% drop on three times or
\* on one and a quarter times the usual volume
SurgeSpotData ==
    {SpotData(6, 20, 1000), SpotData(-6, 60, 1000), SpotData(-6, 25, 1000)}

\* Open interest 0, 100, and 16%, 20% or 30% above 100; or a record of 130
\* contracts that has no open_interest_usd
SurgeDerivData ==
    {DerivData(1, 3, oi, 1000, 0, 0) : oi \in {0, 100, 116, 120, 130}}
        \cup {[funding_rate |-> 1, funding_rate_24h |-> 3, open_interest |-> 130,
               long_short_ratio |-> 1000]}

MaxSurgeCalls == 3

SurgeNext ==
    /\ calls < MaxSurgeCalls
    /\ \E spot_data \in SurgeSpotData, deriv_data \in SurgeDerivData :
           Analyze([BTC |-> spot_data], [BTC |-> deriv_data])

SurgeSpec == Init /\ [][SurgeNext]_vars

\* C27: in every analyze call, a result that has the price+OI surge signal
\* of a symbol (liquidation_risk_alert, rule 6) also has the symbol's OI
\* surge signal (oi_surge, rule 2), and a call in which rule 2 wrote to the
\* symbol's history does not emit the price+OI surge signal.
C27_PriceOiSurgeImpliesOiSurge ==
    [][\A n \in 1..Len(last'.order) :
          LET symbol == last'.order[n]
              wrote == RuleHistory(3, historical_data, last', n, calls')
                           # RuleHistory(2, historical_data, last', n, calls')
          IN  /\ HasSignal(last'.signals, symbol \o "_liquidation_risk_alert")
                     => HasSignal(last'.signals, symbol \o "_oi_surge")
              /\ wrote => ~HasSignal(last'.signals, symbol \o "_liquidation_risk_alert")
      ]_vars

\* The first call sees a 6% rise, stores the open interest and is quiet on
\* rules 2 and 6; the second, on a 6% rise with the open interest 20% up,
\* emits the price+OI surge signal and the OI surge warning.
C27_Witness ==
    /\ calls = 2
    /\ prev.spot["BTC"].change_24h = 6
    /\ OiUsd(prev.deriv["BTC"]) = 100
    /\ ~HasSignal(prev.signals, "BTC_liquidation_risk_alert")
    /\ last.spot["BTC"].change_24h = 6
    /\ OiUsd(last.deriv["BTC"]) = 120
    /\ HasSignalAt(last.signals, "BTC_liquidation_risk_alert", "critical")
    /\ HasSignalAt(last.signals, "BTC_oi_surge", "warn")

\* C28: in every analyze call, a result that has the panic-selling signal of
\* a symbol (panic_selling_risk, rule 7) also has the symbol's volume surge
\* signal (volume_surge, rule 4); a call in which rule 4 does not fire
\* leaves the current volume ratio in the newest record.
C28_PanicSellingImpliesVolumeSurge ==
    [][\A n \in 1..Len(last'.order) :
          LET symbol == last'.order[n]
              after4 == RuleHistory(5, historical_data, last', n, calls')
          IN  /\ HasSignal(last'.signals, symbol \o "_panic_selling_risk")
                     => HasSignal(last'.signals, symbol \o "_volume_surge")
              /\ ~HasSignal(last'.signals, symbol \o "_volume_surge")
                     => /\ Len(after4) > 0
                        /\ Get(Last(after4), "volume_ratio", -1)
                               = VolumeRatio(last'.spot[symbol])
      ]_vars

\* The third call emits both signals on a 6% drop with three times the
\* stored volume ratio; the second was a 6% drop on a quarter more volume,
\* which gave the volume surge signal alone.
C28_Witness ==
    /\ calls = 3
    /\ HasSignalAt(prev.signals, "BTC_volume_surge", "warn")
    /\ ~HasSignal(prev.signals, "BTC_panic_selling_risk")
    /\ prev.spot["BTC"].change_24h = -6
    /\ HasSignalAt(last.signals, "BTC_panic_selling_risk", "warn")
    /\ HasSignalAt(last.signals, "BTC_volume_surge", "warn")
    /\ Get(Last(historical_data["BTC"]), "volume_ratio", -1) = 20

---------------------------------------------------------------------------
(* The order in which analyze takes the symbols *)

\* C29: in every analyze call, whatever the order in which the symbols of
\* the intersection are processed, the set of signals, the regime label
\* and the engine history after the call are the same.
C29_OrderIndependent ==
    [][\A order \in Perms(Analyzed(last')) :
          LET r == analyze(historical_data, last'.spot, last'.deriv, order, calls')
          IN  /\ SignalSet(r.signals) = SignalSet(last'.signals)
              /\ r.regime.label = last'.regime.label
              /\ r.hist = historical_data'
      ]_vars

\* The second call took ETH before BTC on a history that held both symbols,
\* emitted signals of both and the BTC dominance signal, and wrote nothing
\* but left both histories in place.
C29_Witness ==
    /\ calls = 2
    /\ last.order = <<"ETH", "BTC">>
    /\ Analyzed(prev) = {"BTC", "ETH"}
    /\ HasSignal(last.signals, "btc_dominance_change")
    /\ HasSignal(last.signals, "BTC_oi_surge")
    /\ HasSignal(last.signals, "ETH_extreme_funding")
    /\ Len(historical_data["BTC"]) = 1
    /\ Len(historical_data["ETH"]) = 1

---------------------------------------------------------------------------
(* The entry points that run the engine *)

\* POST /report/daily, GET /signals/analyze, GET /report/morning-brief and
\* scripts/run_daily_report.py
EntryPoints == {"report_daily", "signals_analyze", "morning_brief", "script"}

\* "engine = SignalEngine()" with the history of the state handed in
NewSignalEngine_module_level(H) == H

\* "engine = SignalEngine()" in an entry point: a new engine, whatever the
\* history H of the engine the previous request built
NewSignalEngine(H) == EmptyHistory

\* One request through an entry point, on the snapshots its provider
\* returned.  POST /report/daily answers an empty snapshot with 502 and the
\* script raises RuntimeError (exit status 1) before the engine is built;
\* the two GET routes have no such test.  historical_data is the history of
\* the engine of the latest request.
EntryRequest(entry, spot_snapshot, derivatives_snapshot) ==
    /\ response.pc \in {"IDLE", "DONE"}
    /\ IF /\ entry \in {"report_daily", "script"}
          /\ (DOMAIN spot_snapshot = {} \/ DOMAIN derivatives_snapshot = {})
       THEN /\ response' = [pc |-> "DONE", entry |-> entry,
                            status |-> IF entry = "script" THEN 1 ELSE 502,
                            analyzed |-> FALSE, signals |-> <<>>,
                            regime |-> [label |-> "none", rationale |-> <<>>]]
            /\ UNCHANGED engineVars
       ELSE \E order \in Perms((DOMAIN spot_snapshot) \cap (DOMAIN derivatives_snapshot)) :
                LET engine == NewSignalEngine(historical_data)
                    result == analyze(engine, spot_snapshot, derivatives_snapshot,
                                      order, calls + 1)
                IN  /\ historical_data' = result.hist
                    /\ calls' = calls + 1
                    /\ covered' = [s \in Symbols |->
                                       IF s \in DOMAIN spot_snapshot
                                          /\ s \in DOMAIN derivatives_snapshot
                                       THEN covered[s] + 1 ELSE covered[s]]
                    /\ prev' = last
                    /\ last' = [spot |-> spot_snapshot, deriv |-> derivatives_snapshot,
                                order |-> order, signals |-> result.signals,
                                regime |-> result.regime]
                    /\ response' = [pc |-> "DONE", entry |-> entry,
                                    status |-> IF entry = "script" THEN 0 ELSE 200,
                                    analyzed |-> TRUE, signals |-> result.signals,
                                    regime |-> result.regime]
    /\ UNCHANGED <<providerVars, notifier, loop>>

\* What the provider returns to two requests in a row: a market whose BTC
\* open interest then rises by 30% on a 6% rise, whose ETH volume ratio
\* grows sixfold on a 6% drop against a positive funding rate and whose BTC
\* share moves from 1/2 to 2/3; or nothing.
EntrySpotSnapshots ==
    {<<>>,
     [BTC |-> SpotData(6, 20, 1000), ETH |-> SpotData(-6, 10, 1000)],
     [BTC |-> SpotData(6, 20, 1000), ETH |-> SpotData(-6, 30, 500)]}

EntryDerivSnapshots ==
    {<<>>,
     [BTC |-> DerivData(1, 3, 100, 1000, 0, 0), ETH |-> DerivData(10, 3, 100, 1000, 0, 0)],
     [BTC |-> DerivData(1, 3, 130, 1000, 0, 0), ETH |-> DerivData(10, 3, 100, 1000, 0, 0)]}

MaxRequests == 2

EntryNext ==
    /\ calls < MaxRequests
    /\ \E entry \in EntryPoints, spot_snapshot \in EntrySpotSnapshots,
          derivatives_snapshot \in EntryDerivSnapshots :
           EntryRequest(entry, spot_snapshot, derivatives_snapshot)

EntrySpec == Init /\ [][EntryNext]_vars

\* The signals of the rules that compare with the history
ComparingRuleIds ==
    {s \o "_" \o rule : s \in Symbols,
                        rule \in {"oi_surge", "volume_surge", "liquidation_risk_alert",
                                  "panic_selling_risk"}}
        \cup {"btc_dominance_change"}

\* C30: every entry point runs analyze on a new engine, so the response to
\* a request is the result of a fresh engine on the request's snapshots,
\* whatever requests came before, and no response has an OI-surge,
\* volume-surge, price+OI-surge, panic-selling or BTC-dominance signal.
C30_FreshEnginePerRequest ==
    (response.pc = "DONE" /\ response.analyzed) =>
        /\ response.signals
               = analyze(EmptyHistory, last.spot, last.deriv, last.order, calls).signals
        /\ \A i \in 1..Len(response.signals) :
               response.signals[i].id \notin ComparingRuleIds

\* The second of two requests, through GET /signals/analyze, saw BTC's open
\* interest 30% above that of the first and ETH's volume ratio six times
\* higher, and answered with the signals of a first call only.
C30_Witness ==
    /\ calls = 2
    /\ response.pc = "DONE" /\ response.entry = "signals_analyze"
    /\ Analyzed(prev) = {"BTC", "ETH"} /\ Analyzed(last) = {"BTC", "ETH"}
    /\ OiUsd(prev.deriv["BTC"]) = 100 /\ OiUsd(last.deriv["BTC"]) = 130
    /\ VolumeRatio(prev.spot["ETH"]) = 10 /\ VolumeRatio(last.spot["ETH"]) = 60
    /\ HasSignal(response.signals, "ETH_momentum_divergence")
    /\ Len(historical_data["BTC"]) = 1

---------------------------------------------------------------------------
(* The telegram_sent field of the daily report *)

\* C26: the telegram_sent of a POST /report/daily response is true only if
\* the notifier's send reported success (it returned True): it is false
\* when Telegram is disabled, when the notifier is not configured and when
\* the send failed.
C26_TelegramSentMeansDelivered ==
    (notifier.pc = "DONE" /\ notifier.caller = "route") =>
        /\ notifier.telegram_sent => notifier.result = "True"
        /\ notifier.path \in {"disabled", "unconfigured"} => ~notifier.telegram_sent

---------------------------------------------------------------------------
(* News: get_news_snapshot of the live provider and of the mock provider *)

\* news_templates of the mock provider (title pattern i, source, sentiment)
news_templates ==
    <<[source |-> "CryptoNews", sentiment |-> "positive"],
      [source |-> "BlockchainDaily", sentiment |-> "neutral"],
      [source |-> "CryptoWatch", sentiment |-> "negative"],
      [source |-> "DigitalAssets", sentiment |-> "positive"],
      [source |-> "TechCrypto", sentiment |-> "neutral"]>>

\* result.sort(key=published_at, reverse=True): newest first, items of equal
\* time in the order they had (the sort is stable)
RECURSIVE SortNewest(_)
SortNewest(items) ==
    IF items = <<>> THEN <<>>
    ELSE LET sorted == SortNewest(SubSeq(items, 1, Len(items) - 1))
             x == Last(items)
             before == SelectSeq(sorted, LAMBDA y : y.published_at >= x.published_at)
             after == SelectSeq(sorted, LAMBDA y : y.published_at < x.published_at)
         IN  before \o <<x>> \o after

\* The inner loop of the mock provider for one keyword: draws is the
\* sequence of its random draws <<template, hours_ago>>, one for each of
\* the num_news rounds; a title already used is skipped.
RECURSIVE MockKeywordNews(_, _, _)
MockKeywordNews(result, keyword, draws) ==
    IF draws = <<>> THEN result
    ELSE LET title == <<Head(draws)[1], keyword>>
             template == news_templates[Head(draws)[1]]
             news_item == [title |-> title, source |-> template.source,
                           published_at |-> 0 - Head(draws)[2],
                           sentiment |-> template.sentiment,
                           keywords |-> <<keyword>>]
         IN  IF \E i \in 1..Len(result) : result[i].title = title
             THEN MockKeywordNews(result, keyword, Tail(draws))
             ELSE MockKeywordNews(Append(result, news_item), keyword, Tail(draws))

RECURSIVE MockNewsLoop(_, _, _)
MockNewsLoop(result, keywords, draws) ==
    IF keywords = <<>> THEN result
    ELSE MockNewsLoop(MockKeywordNews(result, Head(keywords), Head(draws)),
                      Tail(keywords), Tail(draws))

\* MockMarketProvider.get_news_snapshot: draws[k] are the draws for keywords[k]
Mock_get_news_snapshot(keywords, draws) ==
    SortNewest(MockNewsLoop(<<>>, keywords, draws))

\* What _fetch_news_from_rss delivers: n items that match, newest first
RssItems(n) ==
    [i \in 1..n |-> [title |-> <<"rss", i>>, source |-> "CoinTelegraph",
                     published_at |-> 0 - i, sentiment |-> "neutral",
                     keywords |-> <<>>]]

\* _fetch_news_from_coingecko: a placeholder that returns no items
_fetch_news_from_coingecko(keywords) == <<>>

NewsLimit == 10

\* PublicProvider.get_news_snapshot: rss is what _fetch_news_from_rss did
\* (raised, or delivered rss.items items), draws the draws of the fallback
\* provider.  The path taken and the list returned.
get_news_snapshot(keywords, rss, draws) ==
    IF rss.raised
    THEN [path |-> "error_fallback", returned |-> Mock_get_news_snapshot(keywords, draws)]
    ELSE IF rss.items > 0
    THEN [path |-> "rss", returned |-> FirstN(RssItems(rss.items), NewsLimit)]
    ELSE IF _fetch_news_from_coingecko(keywords) # <<>>
    THEN [path |-> "coingecko",
          returned |-> FirstN(_fetch_news_from_coingecko(keywords), NewsLimit)]
    ELSE [path |-> "empty_fallback", returned |-> Mock_get_news_snapshot(keywords, draws)]

\* get_news_snapshot of the live provider is called and returns
GetNewsSnapshot(keywords, rss, draws) ==
    /\ fetch.pc = "IDLE"
    /\ LET r == get_news_snapshot(keywords, rss, draws)
       IN  fetch' = [NoFetch EXCEPT !.provider = "public", !.kind = "news",
                                    !.symbols = keywords, !.pc = "DONE",
                                    !.returned = r.returned,
                                    !.trace = <<"REQUESTED", r.path, "DONE">>,
                                    !.n = 1]
    /\ UNCHANGED <<engineVars, spot_cache, derivatives_cache, now, market_provider,
                   response, notifier, loop>>

MaxKeywords == 3
MaxFeedItems == 12

Keywords == {"bitcoin", "ethereum", "solana"}

KeywordLists == UNION {[1..n -> Keywords] : n \in 0..MaxKeywords}

\* _fetch_news_from_rss raises, or delivers 0 to MaxFeedItems items
RssOutcomes ==
    {[raised |-> TRUE, items |-> 0]}
        \cup {[raised |-> FALSE, items |-> n] : n \in 0..MaxFeedItems}

\* The draws for one keyword: num_news is 2, 3 or 4; the same template
\* twice, or different templates, at different or equal publish times
NewsDraws ==
    {<<<<1, 5>>, <<1, 7>>>>,
     <<<<2, 3>>, <<1, 3>>, <<2, 8>>>>,
     <<<<1, 9>>, <<2, 2>>, <<3, 4>>, <<4, 6>>>>}

NewsNext ==
    /\ fetch.pc = "IDLE"
    /\ \E keywords \in KeywordLists, rss \in RssOutcomes :
           \E draws \in [1..Len(keywords) -> NewsDraws] :
               GetNewsSnapshot(keywords, rss, draws)

NewsSpec == Init /\ [][NewsNext]_vars

\* C25: get_news_snapshot of the live provider returns at most 10 items for
\* every keyword list and on every path: from the feeds, and from the mock
\* provider when the feeds delivered nothing or raised.
C25_AtMostTenNews ==
    (fetch.kind = "news" /\ fetch.pc = "DONE") => Len(fetch.returned) <= NewsLimit

---------------------------------------------------------------------------
(* Concurrent report requests *)

ConcurrentNext ==
    \E t \in Tasks :
        \/ TaskStart(t)
        \/ \E spot_snapshot \in TaskSpotSnapshots : TaskSpot(t, spot_snapshot)
        \/ \E derivatives_snapshot \in TaskDerivSnapshots :
               TaskDerivatives(t, derivatives_snapshot)
        \/ TaskNews(t)
        \/ TaskAnalyzeSymbol(t)

ConcurrentSpec == Init /\ [][ConcurrentNext]_vars

\* Task t is inside analyze: its engine may hold the records of some of the
\* symbols and not yet of the others
InAnalyze(t) == loop.tasks[t].pc = "ANALYZE"

\* C22: while the analyze call of a request is under way no other request
\* takes a step, whatever the interleaving of the fetches; so each analyze
\* call starts from the empty history of its own engine, nothing but its
\* own steps changes that engine, and its result is that of one
\* uninterrupted call on the snapshots of its request.
C22_AnalyzeNotInterleaved ==
    [][\A t \in Tasks :
          /\ InAnalyze(t) =>
                 /\ \A u \in Tasks \ {t} : loop'.tasks[u] = loop.tasks[u]
                 /\ loop.running = t
          /\ (loop.tasks[t].pc = "NEWS" /\ loop'.tasks[t].pc = "ANALYZE") =>
                 loop'.tasks[t].engine.hist = EmptyHistory
          /\ (InAnalyze(t) /\ loop'.tasks[t].pc = "DONE") =>
                 LET task == loop'.tasks[t]
                     r == analyze(EmptyHistory, task.spot, task.deriv, task.order, now)
                 IN  /\ task.signals = r.signals
                     /\ task.regime = r.regime
                     /\ task.engine.hist = r.hist
      ]_vars

\* The first request is inside analyze with one of its two symbols done
\* while the second request, its snapshots fetched, waits for the loop.
C22_Witness ==
    /\ loop.tasks[1].pc = "ANALYZE"
    /\ loop.tasks[1].k = 1
    /\ Len(loop.tasks[1].order) = 2
    /\ loop.tasks[1].engine.hist # EmptyHistory
    /\ loop.tasks[2].pc = "NEWS"
    /\ DOMAIN loop.tasks[2].spot # {}
    /\ loop.running = 1

===========================================================================
